----------------------- MODULE PullSecretKeychainProofs -----------------------
(* Proofs about PullSecretKeychain and RegistryCredentials, for every set of  *)
(* Secrets, of names and of contents.                                         *)
EXTENDS RegistryCredentials, TLAPS

\* The state is well typed after every step of the keychain's controller.
THEOREM KeychainTyped == Spec => []TypeOK
<1>1. Init => TypeOK
  BY KeychainAssumption DEF Init, TypeOK, Contents, Rebuilds, Waiting, Empty
<1>2. TypeOK /\ [Next]_vars => TypeOK'
  <2> SUFFICES ASSUME TypeOK, [Next]_vars PROVE TypeOK'
    OBVIOUS
  <2> USE DEF TypeOK, Rebuilds
  <2>1. ASSUME NEW n \in Secrets, NEW content \in Contents \cup {Missing}, Write(n, content)
        PROVE  TypeOK'
    BY <2>1 DEF Write
  <2>2. ASSUME NEW n \in Secrets, Observe(n) PROVE TypeOK'
    BY <2>2 DEF Observe
  <2>3. ASSUME NEW n \in Secrets, Deliver(n) PROVE TypeOK'
    BY <2>3 DEF Deliver
  <2>4. ASSUME NEW n \in Names, Start(n) PROVE TypeOK'
    BY <2>4 DEF Start, Empty
  <2>5. ASSUME NEW n \in Names, ReadSecret(n) PROVE TypeOK'
    BY <2>5, KeychainAssumption DEF ReadSecret
  <2>6. ASSUME Retry PROVE TypeOK'
    BY <2>6 DEF Retry, Waiting, Empty
  <2>7. ASSUME Publish PROVE TypeOK'
    BY <2>7 DEF Publish, AllUsable, Waiting, Empty
  <2>8. CASE UNCHANGED vars
    BY <2>8 DEF vars
  <2> QED BY <2>1, <2>2, <2>3, <2>4, <2>5, <2>6, <2>7, <2>8
          DEF Next, RebuildStep, ReadFails, BuildFails
<1> QED BY <1>1, <1>2, PTL DEF Spec

-------------------------------------------------------------------------------
(* A change of a Secret is pending until a rebuild that will see it begins.   *)

Pending == queue # {} \/ notify \cap Names # {}

\* The worker that is not rebuilding holds no request, and one that is holds one.
WorkerHoldsRequest ==
  /\ ~rebuild.busy => rebuild = Waiting
  /\ rebuild.busy => rebuild.request # {}

\* A Secret that changed after the rebuild read it has a request pending.
LateChangePending ==
  \A n \in Names : rebuild.busy /\ n \notin rebuild.todo /\ rebuild.read[n] # store[n] => Pending

\* A Secret that the keychain is behind on has a request pending, or the
\* rebuild under way sees it.
BehindIsPending ==
  \A n \in Names : keychain[n] # store[n] =>
    \/ Pending
    \/ rebuild.busy /\ (n \in rebuild.todo \/ rebuild.read[n] = store[n])

Inv == TypeOK /\ WorkerHoldsRequest /\ LateChangePending /\ BehindIsPending

\* What the worker still has to read belongs to a rebuild under way.
LEMMA TodoMeansBusy ==
  ASSUME WorkerHoldsRequest, rebuild.todo # {}
  PROVE  rebuild.busy
BY DEF WorkerHoldsRequest, Waiting

\* The rebuild that an error ends leaves its request in the queue.
LEMMA RetryPending ==
  ASSUME Inv, rebuild.busy, Retry
  PROVE  Pending' /\ WorkerHoldsRequest'
BY DEF Inv, WorkerHoldsRequest, Retry, Pending, Waiting

\* The invariant survives every step.
LEMMA InvStep == Inv /\ TypeOK' /\ [Next]_vars => Inv'
<1> SUFFICES ASSUME Inv, TypeOK', [Next]_vars
             PROVE  WorkerHoldsRequest' /\ LateChangePending' /\ BehindIsPending'
  BY DEF Inv
<1> USE DEF Inv, WorkerHoldsRequest, LateChangePending, BehindIsPending, Pending
<1>1. ASSUME NEW n \in Secrets, NEW content \in Contents \cup {Missing}, Write(n, content)
      PROVE  WorkerHoldsRequest' /\ LateChangePending' /\ BehindIsPending'
  BY <1>1 DEF Write
<1>2. ASSUME NEW n \in Secrets, Observe(n)
      PROVE  WorkerHoldsRequest' /\ LateChangePending' /\ BehindIsPending'
  <2>1. /\ notify' = notify \cup {n}
        /\ \A m \in Names \ {n} : store'[m] = store[m]
        /\ UNCHANGED <<queue, rebuild, keychain>>
    BY <1>2, KeychainAssumption DEF Observe, TypeOK
  <2>2. CASE n \in Names
    BY <2>1, <2>2
  <2>3. CASE n \notin Names
    BY <2>1, <2>3
  <2> QED BY <2>2, <2>3
<1>3. ASSUME NEW n \in Secrets, Deliver(n)
      PROVE  WorkerHoldsRequest' /\ LateChangePending' /\ BehindIsPending'
  <2>1. Pending => Pending'
    BY <1>3 DEF Deliver
  <2>2. UNCHANGED <<store, rebuild, keychain>>
    BY <1>3 DEF Deliver
  <2> QED BY <2>1, <2>2
<1>4. ASSUME NEW n \in Names, Start(n)
      PROVE  WorkerHoldsRequest' /\ LateChangePending' /\ BehindIsPending'
  BY <1>4 DEF Start
<1>5. ASSUME NEW n \in Names, ReadSecret(n)
      PROVE  WorkerHoldsRequest' /\ LateChangePending' /\ BehindIsPending'
  <2>1. rebuild.busy
    BY <1>5, TodoMeansBusy DEF ReadSecret
  <2>2. /\ rebuild'.busy /\ rebuild'.request = rebuild.request
        /\ rebuild'.todo = rebuild.todo \ {n}
        /\ rebuild'.read[n] = store[n]
        /\ \A m \in Names \ {n} : rebuild'.read[m] = rebuild.read[m]
        /\ UNCHANGED <<store, notify, queue, keychain>>
    BY <1>5, <2>1 DEF ReadSecret, TypeOK, Rebuilds
  <2> QED BY <2>1, <2>2
<1>6. ASSUME ReadFails \/ BuildFails
      PROVE  WorkerHoldsRequest' /\ LateChangePending' /\ BehindIsPending'
  <2>1. rebuild.busy /\ Retry
    BY <1>6, TodoMeansBusy DEF ReadFails, BuildFails
  <2> QED BY <2>1, RetryPending
<1>7. ASSUME Publish
      PROVE  WorkerHoldsRequest' /\ LateChangePending' /\ BehindIsPending'
  <2>1. /\ rebuild.busy /\ rebuild.todo = {}
        /\ keychain' = rebuild.read /\ rebuild' = Waiting
        /\ UNCHANGED <<store, notify, queue>>
    BY <1>7 DEF Publish
  <2>2. ~rebuild'.busy
    BY <2>1 DEF Waiting
  <2> QED BY <2>1, <2>2
<1>8. CASE UNCHANGED vars
  BY <1>8 DEF vars
<1> QED BY <1>1, <1>2, <1>3, <1>4, <1>5, <1>6, <1>7, <1>8 DEF Next, RebuildStep

\* When no change is on its way the keychain is that of the Secrets as they are,
\* after every interleaving of writes, reads and failures.
THEOREM QuietKeychainIsCurrent == Spec => []QuietIsCurrent
<1>1. Init => Inv
  <2> SUFFICES ASSUME Init PROVE Inv
    OBVIOUS
  <2>1. TypeOK
    BY KeychainAssumption DEF Init, TypeOK, Contents, Rebuilds, Waiting, Empty
  <2>2. WorkerHoldsRequest /\ LateChangePending
    BY DEF Init, WorkerHoldsRequest, LateChangePending, Waiting
  <2>3. BehindIsPending
    BY KeychainAssumption DEF Init, BehindIsPending, Pending, Empty
  <2> QED BY <2>1, <2>2, <2>3 DEF Inv
<1>2. Inv => QuietIsCurrent
  BY DEF Inv, BehindIsPending, Pending, QuietIsCurrent, Quiet
<1>3. Spec => []TypeOK
  BY KeychainTyped
<1> QED BY <1>1, <1>2, <1>3, InvStep, PTL DEF Spec

-------------------------------------------------------------------------------
(* The credential that a request presents.                                    *)

\* A reconcile that runs beside the keychain's controller does not disturb it.
LEMMA KeychainInside == CredentialSpec => Spec
<1>1. CredentialInit => Init
  BY DEF CredentialInit
<1>2. [CredentialNext]_credentialVars => [Next]_vars
  BY DEF CredentialNext, credentialVars, vars, WriteAttached, Rotate, Assemble, Ask, Fetch,
         FetchFails, Requeue
<1> QED BY <1>1, <1>2, PTL DEF CredentialSpec, Spec

\* A chain that waits to be asked begins with the keychain that is published.
ChainInv ==
  /\ fetch = [pc |-> fetch.pc, chain |-> fetch.chain, presented |-> fetch.presented]
  /\ fetch.pc = "ask" => DOMAIN fetch.chain = 1..3 /\ fetch.chain[1] = Live

LEMMA ChainHolds == CredentialSpec => []ChainInv
<1>1. CredentialInit => ChainInv
  BY DEF CredentialInit, Queued, ChainInv
<1>2. ASSUME ChainInv, [CredentialNext]_credentialVars PROVE ChainInv'
  <2>1. CASE UNCHANGED fetch
    BY <1>2, <2>1 DEF ChainInv
  <2>2. CASE Assemble
    <3>1. fetch'.pc = "ask" /\ fetch'.chain = <<Live, attached, Ambient>>
      BY <2>2 DEF Assemble, Queued
    <3>2. DOMAIN fetch'.chain = 1..3 /\ fetch'.chain[1] = Live
      BY <3>1
    <3>3. fetch' = [pc |-> fetch'.pc, chain |-> fetch'.chain, presented |-> fetch'.presented]
      BY <2>2 DEF Assemble, Queued
    <3> QED BY <3>2, <3>3 DEF ChainInv
  <2>3. CASE Ask \/ Fetch \/ FetchFails \/ Requeue
    <3>1. /\ fetch' = [pc |-> fetch'.pc, chain |-> fetch'.chain, presented |-> fetch'.presented]
          /\ fetch'.pc # "ask"
      <4>1. CASE Ask
        BY <4>1 DEF Ask, Queued
      <4>2. CASE Fetch
        BY <1>2, <4>2 DEF Fetch, ChainInv
      <4>3. CASE FetchFails \/ Requeue
        BY <4>3 DEF FetchFails, Requeue, Queued
      <4> QED BY <2>3, <4>1, <4>2, <4>3
    <3> QED BY <3>1 DEF ChainInv
  <2> QED BY <1>2, <2>1, <2>2, <2>3
          DEF CredentialNext, credentialVars, WriteAttached, Rotate
<1> QED BY <1>1, <1>2, PTL DEF CredentialSpec

\* A chain whose first keychain has something is asked no further.
LEMMA FirstAnswers ==
  ASSUME ChainInv, fetch.pc = "ask", Answers(Live) # {}
  PROVE  Presentable = Answers(Live)
<1> DEFINE asked == {i \in DOMAIN fetch.chain :
                       \A j \in 1..(i - 1) : Answers(fetch.chain[j]) = {}}
<1>1. DOMAIN fetch.chain = 1..3 /\ fetch.chain[1] = Live
  BY DEF ChainInv
<1>2. ASSUME NEW i \in asked PROVE i = 1
  <2>1. i \in 1..3 /\ \A j \in 1..(i - 1) : Answers(fetch.chain[j]) = {}
    BY <1>1, <1>2
  <2>2. 1 \notin 1..(i - 1)
    BY <1>1, <2>1
  <2> QED BY <2>1, <2>2
<1>3. 1 \in asked
  BY <1>1
<1>4. asked = {1}
  BY <1>2, <1>3
<1> HIDE DEF asked
<1>5. UNION {Answers(fetch.chain[i]) : i \in asked} = Answers(Live)
  BY <1>1, <1>4
<1> QED BY <1>5 DEF Presentable, asked

\* What a step of a request may present.
OfferedIsPresented ==
  fetch.pc = "ask" /\ fetch'.pc = "asked" /\ Quiet /\ Offered # {} => fetch'.presented \in Offered

\* However Secrets are written and rotated, whatever reads and rebuilds fail, and
\* however long ago the reconcile chained its keychains, a request presents what
\* a Secret of the operator holds at that moment, unless a change is on its way.
THEOREM OperatorSecretsWin == CredentialSpec => LiveCredentialsWin
<1>1. ChainInv /\ QuietIsCurrent /\ [CredentialNext]_credentialVars
        => [OfferedIsPresented]_credentialVars
  <2> SUFFICES ASSUME ChainInv, QuietIsCurrent, CredentialNext, Quiet, Offered # {},
                      fetch.pc = "ask", fetch'.pc = "asked"
               PROVE  fetch'.presented \in Offered
    BY DEF OfferedIsPresented
  <2>1. Answers(Live) = Offered
    BY DEF QuietIsCurrent, Answers, Offered
  <2>2. Ask
    <3>1. ~UNCHANGED fetch
      OBVIOUS
    <3> QED BY <3>1
            DEF CredentialNext, WriteAttached, Rotate, Assemble, Fetch, FetchFails, Requeue
  <2>3. PICK credential \in Presentable :
          fetch' = [Queued EXCEPT !.pc = "asked", !.presented = credential]
    BY <2>2 DEF Ask
  <2>4. fetch'.presented = credential
    BY <2>3 DEF Queued
  <2> QED BY <2>1, <2>3, <2>4, FirstAnswers
<1>2. CredentialSpec => []QuietIsCurrent
  BY KeychainInside, QuietKeychainIsCurrent, PTL
<1> QED BY <1>1, <1>2, ChainHolds, PTL DEF CredentialSpec, LiveCredentialsWin, OfferedIsPresented

===============================================================================
