-------------------------- MODULE RegistryCredentials --------------------------
(***************************************************************************)
(* Which credential a request to the registry presents (reconciler.go:      *)
(* newKeychain, fetchImage), with the keychain of --image-pull-secret as    *)
(* its controller rebuilds it (PullSecretKeychain) and a reconcile that      *)
(* runs meanwhile: an image whose fetch is tried until the registry, which   *)
(* rotates its credential now and then, accepts it.                         *)
(*                                                                         *)
(* A reconcile chains the keychains of the operator, the workload and the   *)
(* environment once; the request comes later.  The chain refers to the      *)
(* operator's keychain and holds what the workload's Secrets had.  Without  *)
(* --k8s-keychain it is as if no Secret of the workload existed.            *)
(***************************************************************************)
EXTENDS PullSecretKeychain, Integers, Sequences

CONSTANTS
  Live,    \* a reference to the keychain that is published
  Ambient  \* what the environment has for the registry, or Missing

ASSUME CredentialAssumption ==
  /\ Live \notin Contents \cup {Missing}
  /\ Ambient \in Usable \cup {Missing}

VARIABLES
  attached,  \* the Secret that the workload names
  accepted,  \* the credential that the registry accepts
  fetch      \* the reconcile

credentialVars == <<vars, attached, accepted, fetch>>

\* The request is queued, new or for a retry, at the latest by RequeueAfter.
Queued == [pc |-> "queued", chain |-> << >>, presented |-> Missing]

CredentialInit ==
  /\ Init
  /\ attached \in Contents \cup {Missing}
  /\ accepted \in Usable
  /\ fetch = Queued

-------------------------------------------------------------------------------

WriteAttached(content) ==
  /\ content # attached
  /\ attached' = content
  /\ UNCHANGED <<vars, accepted, fetch>>

\* The registry's credential is rotated.
Rotate(credential) ==
  /\ credential # accepted
  /\ accepted' = credential
  /\ UNCHANGED <<vars, attached, fetch>>

\* A chain with the operator's Secrets as they are when it is built.
AssembleSnapshot ==
  /\ fetch.pc = "queued"
  /\ attached \notin Malformed
  /\ \E n \in Names :
       fetch' = [Queued EXCEPT !.pc = "ask", !.chain = <<keychain[n], attached, Ambient>>]
  /\ UNCHANGED <<vars, attached, accepted>>

\* newKeychain: the operator's first, the environment's last.
Assemble ==
  /\ fetch.pc = "queued"
  /\ attached \notin Malformed
  /\ fetch' = [Queued EXCEPT !.pc = "ask", !.chain = <<Live, attached, Ambient>>]
  /\ UNCHANGED <<vars, attached, accepted>>

\* What a keychain of a chain has for the registry: a keychain of several Secrets
\* answers with one of them.
Answers(k) == (IF k = Live THEN {keychain[n] : n \in Names} ELSE {k}) \ {Missing}


\* The first keychain that has anything is asked; if none has, the request is
\* anonymous.
Presentable ==
  LET asked == {i \in DOMAIN fetch.chain : \A j \in 1..(i - 1) : Answers(fetch.chain[j]) = {}}
      found == UNION {Answers(fetch.chain[i]) : i \in asked}
  IN IF found = {} THEN {Missing} ELSE found

\* The request resolves its credential through the chain.
Ask ==
  /\ fetch.pc = "ask"
  /\ \E credential \in Presentable :
       fetch' = [Queued EXCEPT !.pc = "asked", !.presented = credential]
  /\ UNCHANGED <<vars, attached, accepted>>

\* The registry accepts the credential, and the image is stored.
Fetch ==
  /\ fetch.pc = "asked"
  /\ fetch.presented = accepted
  /\ fetch' = [fetch EXCEPT !.pc = "fetched"]
  /\ UNCHANGED <<vars, attached, accepted>>

\* It refuses it, or does not answer, or fails: the reconcile is tried again.
FetchFails ==
  /\ fetch.pc = "asked"
  /\ fetch' = Queued
  /\ UNCHANGED <<vars, attached, accepted>>

\* The image is asked for again.
Requeue ==
  /\ fetch.pc = "fetched"
  /\ fetch' = Queued
  /\ UNCHANGED <<vars, attached, accepted>>

-------------------------------------------------------------------------------

CredentialNext ==
  \/ Next /\ UNCHANGED <<attached, accepted, fetch>>
  \/ \E content \in Contents \cup {Missing} : WriteAttached(content)
  \/ \E credential \in Usable : Rotate(credential)
  \/ Assemble \/ Ask \/ Fetch \/ FetchFails \/ Requeue

CredentialSpec == CredentialInit /\ [][CredentialNext]_credentialVars

\* A queued request is taken, a fetch ends, with --registry-timeout at the latest,
\* and a registry that is asked for ever with the credential it accepts answers at
\* last.
ImagesAreTried ==
  /\ WF_credentialVars(Assemble)
  /\ WF_credentialVars(Ask)
  /\ WF_credentialVars(Fetch \/ FetchFails)
  /\ SF_credentialVars(Fetch)

FairCredentialSpec == CredentialSpec /\ Propagates /\ ImagesAreTried

-------------------------------------------------------------------------------
(* Properties.                                                              *)

\* The Secrets of the operator as they are on the API server.
Offered == {secrets[n] : n \in Names} \ {Missing}

\* A request presents what a Secret of the operator holds at that moment if any
\* of them holds anything and no change is on its way, also if it was written or
\* rotated after the reconcile had begun, and although the workload and the
\* environment have credentials of their own (reconciler.go: "so
\* operator-provided credentials win ahead of per-workload and ambient cloud
\* creds").
LiveCredentialsWin ==
  [][fetch.pc = "ask" /\ fetch'.pc = "asked" /\ Quiet /\ Offered # {} =>
       fetch'.presented \in Offered]_credentialVars

\* The first keychain that has anything has the credential that is accepted.
InAgreement ==
  /\ \A n \in Names : secrets[n] \in Usable \cup {Missing}
  /\ attached \in Usable \cup {Missing}
  /\ \/ Offered = {accepted}
     \/ Offered = {} /\ attached = accepted
     \/ Offered = {} /\ attached = Missing /\ Ambient = accepted


===============================================================================
