---------------------------- MODULE CacheContract ----------------------------
(***************************************************************************)
(* What ContainerImageCache promises for a tag (cache.go, the comment of   *)
(* the interface): an entry per tag, which Put writes, and which Evict     *)
(* removes exactly if it is "not in refs AND cached before olderThan".     *)
(* There is one map here and no sharing of images between tags, except     *)
(* that a Put makes every entry with the same digest new again.            *)
(***************************************************************************)
EXTENDS Integers, Functions

CONSTANTS Tags, Digests, MaxAge

VARIABLE view   \* partial function from tags to [digest, age]

ContractInit == view = << >>

\* The registry answered digest for tag.
Stored(tag, digest) ==
  view' = [t \in DOMAIN view \cup {tag} |->
             IF t = tag \/ view[t].digest = digest
             THEN [digest |-> digest, age |-> 0]
             ELSE view[t]]

\* The registry answered digest for some digest reference.
Renewed(digest) ==
  view' = [t \in DOMAIN view |->
             IF view[t].digest = digest THEN [view[t] EXCEPT !.age = 0] ELSE view[t]]

\* Evict removes the entries that are not in refs and older than olderThan.
Evicted(refs, olderThan) ==
  view' = Restrict(view, {t \in DOMAIN view : t \in refs \/ view[t].age <= olderThan})

Aged ==
  view' = [t \in DOMAIN view |->
             [view[t] EXCEPT !.age = IF @ < MaxAge THEN @ + 1 ELSE MaxAge]]

ContractNext ==
  \/ \E tag \in Tags, digest \in Digests : Stored(tag, digest)
  \/ \E digest \in Digests : Renewed(digest)
  \/ \E refs \in SUBSET Tags, olderThan \in 0..(MaxAge - 1) : Evicted(refs, olderThan)
  \/ Aged

ContractSpec == ContractInit /\ [][ContractNext]_view

===============================================================================
