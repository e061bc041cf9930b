------------------------ MODULE MCRegistryCredentials ------------------------
(* RegistryCredentials on two instances of which the initial state picks one.  *)
(* "secrets": the keychain's controller alone, with two Secrets, of which a    *)
(* rebuild can read one before and one after a change.  "requests": one Secret *)
(* that is rotated, and a reconcile.                                          *)
EXTENDS RegistryCredentials

CONSTANTS s1, s2, old, new, bad

VARIABLE part

\* Of two Secrets one usable content is enough, and one that can be malformed: any
\* malformed one fails the rebuild.  A rotated one needs two usable contents.
InPart(content) ==
  /\ part = "secrets" => new \notin {content[n] : n \in Secrets} /\ content[s2] # bad
  /\ part = "requests" => content[s2] = Missing

\* With a malformed Secret of the workload no reconcile gets beyond its keychain.
MCInit ==
  /\ CredentialInit
  /\ part \in {"secrets", "requests"}
  /\ InPart(secrets)
  /\ part = "secrets" => attached = bad /\ accepted = old

MCNext ==
  /\ CredentialNext
  /\ UNCHANGED part
  /\ InPart(secrets')
  /\ part = "secrets" => UNCHANGED <<attached, accepted, fetch>>

MCSpec ==
  /\ MCInit /\ [][MCNext]_<<credentialVars, part>>
  /\ Propagates /\ ImagesAreTried

===============================================================================
