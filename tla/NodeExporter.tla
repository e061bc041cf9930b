----------------------------- MODULE NodeExporter -----------------------------
(***************************************************************************)
(* A scrape of the node exporter (internal/nodeexporter: Exporter.Collect   *)
(* and its CRI client) on a node where containers start and exit meanwhile. *)
(*                                                                         *)
(* Collect lists the running containers, asks the runtime for the PID of    *)
(* each, reads the os-release file under /proc/<pid>/root of each, and asks *)
(* the runtime for the image of each, or for all images.  Every call and    *)
(* every read of /proc is a step of its own.                               *)
(***************************************************************************)
EXTENDS Integers, Functions

CONSTANTS
  Containers,  \* container ids: a runtime never uses one twice
  Infra,       \* pause containers and those without pod metadata
  Distroless,  \* containers without an os-release file
  Unreadable,  \* containers whose os-release file exists and cannot be read
  Pids,        \* process ids, which the kernel does use again
  Host,        \* any process that is not the init process of a container
  Nobody, NoPid, NoOS, NoId,
  ImageIds,    \* the ids under which the runtime knows its images
  Identifiers, \* all the strings it resolves to an image, the ids included
  ImageOf,     \* identifier -> image id
  ImageRef,    \* container -> its image_ref, or NoId if the runtime has none
  Image        \* container -> its image.image, or NoId

ASSUME NodeAssumption ==
  /\ Infra \subseteq Containers
  /\ {Host, Nobody} \cap Containers = {} /\ Host # Nobody
  /\ NoPid \notin Pids
  /\ ImageIds \subseteq Identifiers /\ NoId \notin Identifiers
  /\ ImageOf \in [Identifiers -> ImageIds]
  /\ \A id \in ImageIds : ImageOf[id] = id
  /\ ImageRef \in [Containers -> Identifiers \cup {NoId}]
  /\ Image \in [Containers -> Identifiers \cup {NoId}]

VARIABLES
  onlyImagesInUse,  \* --only-images-in-use, as the exporter was started
  occupant,         \* pid -> the container whose init process it is, Host, or Nobody
  started,          \* containers that run or ran
  scrape            \* the state of Collect, and what it emitted

vars == <<onlyImagesInUse, occupant, started, scrape>>

Running == {c \in Containers : \E p \in Pids : occupant[p] = c}

NoScrape ==
  [pc |-> "idle", toStatus |-> {}, pid |-> << >>, toRead |-> {}, toEnrich |-> {},
   missed |-> {}, info |-> {}, images |-> [i \in ImageIds |-> 0]]

Init ==
  /\ onlyImagesInUse \in BOOLEAN
  /\ occupant = [p \in Pids |-> Nobody]
  /\ started = {}
  /\ scrape = NoScrape

-------------------------------------------------------------------------------
(* The node.                                                                *)

StartContainer(c, p) ==
  /\ c \notin started /\ occupant[p] = Nobody
  /\ occupant' = [occupant EXCEPT ![p] = c]
  /\ started' = started \cup {c}
  /\ UNCHANGED <<onlyImagesInUse, scrape>>

StartProcess(p) ==
  /\ occupant[p] = Nobody
  /\ occupant' = [occupant EXCEPT ![p] = Host]
  /\ UNCHANGED <<onlyImagesInUse, started, scrape>>

Exit(p) ==
  /\ occupant[p] # Nobody
  /\ occupant' = [occupant EXCEPT ![p] = Nobody]
  /\ UNCHANGED <<onlyImagesInUse, started, scrape>>

-------------------------------------------------------------------------------
(* Collect: the containers.                                                 *)

\* A list that keeps the pause containers.
ListAllContainers ==
  /\ scrape.pc \in {"idle", "up", "down"}
  /\ scrape' = [NoScrape EXCEPT !.pc = "containers", !.toStatus = Running, !.toRead = Running]
  /\ UNCHANGED <<onlyImagesInUse, occupant, started>>

ListContainers ==
  /\ scrape.pc \in {"idle", "up", "down"}
  /\ scrape' = [NoScrape EXCEPT !.pc = "containers", !.toStatus = Running \ Infra,
                                !.toRead = Running \ Infra]
  /\ UNCHANGED <<onlyImagesInUse, occupant, started>>

ListContainersFails ==
  /\ scrape.pc \in {"idle", "up", "down"}
  /\ scrape' = [NoScrape EXCEPT !.pc = "down"]
  /\ UNCHANGED <<onlyImagesInUse, occupant, started>>

\* ContainerStatus, which may fail or report no PID.
ContainerPID(c) ==
  /\ c \in scrape.toStatus
  /\ \E p \in {q \in Pids : occupant[q] = c} \cup {NoPid} :
       scrape' = [scrape EXCEPT !.toStatus = @ \ {c},
                    !.pid = [x \in DOMAIN @ \cup {c} |-> IF x = c THEN p ELSE @[x]]]
  /\ UNCHANGED <<onlyImagesInUse, occupant, started>>

\* The labels read from /proc/<pid>/root, whoever has the PID by now.
OSOf(p) == IF occupant[p] \in Distroless THEN NoOS ELSE occupant[p]

\* /proc/<pid>/root can be opened, and os-release read or found missing.
CanRead(p) == p # NoPid /\ occupant[p] \notin Unreadable \cup {Nobody}

\* A read that leaves out containers without an os-release file.
ReadOSReleaseOnly(c) ==
  /\ scrape.toStatus = {} /\ c \in scrape.toRead
  /\ LET p == scrape.pid[c]
     IN scrape' = [scrape EXCEPT !.toRead = @ \ {c},
                     !.info = IF CanRead(p) /\ OSOf(p) # NoOS THEN @ \cup {<<c, OSOf(p)>>} ELSE @]
  /\ UNCHANGED <<onlyImagesInUse, occupant, started>>

ReadOSRelease(c) ==
  /\ scrape.toStatus = {} /\ c \in scrape.toRead
  /\ LET p == scrape.pid[c]
     IN scrape' = [scrape EXCEPT !.toRead = @ \ {c},
                     !.info = IF CanRead(p) THEN @ \cup {<<c, OSOf(p)>>} ELSE @]
  /\ UNCHANGED <<onlyImagesInUse, occupant, started>>

-------------------------------------------------------------------------------
(* Collect: the images.                                                     *)

\* A choice that prefers the string the image was asked for by.
ImageFirst(c) == IF Image[c] # NoId THEN Image[c] ELSE ImageRef[c]

IdentifierOf(c) == IF ImageRef[c] # NoId THEN ImageRef[c] ELSE Image[c]

ContainersRead ==
  scrape.pc = "containers" /\ scrape.toStatus = {} /\ scrape.toRead = {}

GatherInUse ==
  /\ ContainersRead /\ onlyImagesInUse
  /\ scrape' = [scrape EXCEPT !.pc = "images",
                  !.toEnrich = {IdentifierOf(c) : c \in DOMAIN scrape.pid} \ {NoId}]
  /\ UNCHANGED <<onlyImagesInUse, occupant, started>>

ListImages ==
  /\ ContainersRead /\ ~onlyImagesInUse
  /\ \E present \in SUBSET ImageIds :
       scrape' = [scrape EXCEPT !.pc = "images", !.toEnrich = present]
  /\ UNCHANGED <<onlyImagesInUse, occupant, started>>

ListImagesFails ==
  /\ ContainersRead /\ ~onlyImagesInUse
  /\ scrape' = [scrape EXCEPT !.pc = "down"]
  /\ UNCHANGED <<onlyImagesInUse, occupant, started>>

\* ImageStatus finds the image: its series are emitted, under the id it has.
EmitImage(id) ==
  /\ id \in scrape.toEnrich
  /\ scrape' = [scrape EXCEPT !.toEnrich = @ \ {id}, !.images[ImageOf[id]] = @ + 1]
  /\ UNCHANGED <<onlyImagesInUse, occupant, started>>

\* The first image that cannot be asked about ends the list.
SkipRemaining(id) ==
  /\ id \in scrape.toEnrich
  /\ scrape' = [scrape EXCEPT !.toEnrich = {}, !.missed = @ \cup {id}]
  /\ UNCHANGED <<onlyImagesInUse, occupant, started>>

\* ImageStatus fails, or knows no such image; missed is for the properties.
SkipImage(id) ==
  /\ id \in scrape.toEnrich
  /\ scrape' = [scrape EXCEPT !.toEnrich = @ \ {id}, !.missed = @ \cup {id}]
  /\ UNCHANGED <<onlyImagesInUse, occupant, started>>

FinishCollect ==
  /\ scrape.pc = "images" /\ scrape.toEnrich = {}
  /\ scrape' = [scrape EXCEPT !.pc = "up"]
  /\ UNCHANGED <<onlyImagesInUse, occupant, started>>

-------------------------------------------------------------------------------

Next ==
  \/ \E p \in Pids :
       \/ \E c \in Containers : StartContainer(c, p)
       \/ StartProcess(p) \/ Exit(p)
  \/ ListContainers \/ ListContainersFails
  \/ \E c \in Containers : ContainerPID(c) \/ ReadOSRelease(c)
  \/ GatherInUse \/ ListImages \/ ListImagesFails
  \/ \E id \in Identifiers : EmitImage(id) \/ SkipImage(id)
  \/ FinishCollect

Spec == Init /\ [][Next]_vars

-------------------------------------------------------------------------------

Scrapes ==
  [pc : {"idle", "containers", "images", "up", "down"}, toStatus : SUBSET Containers,
   toRead : SUBSET Containers, toEnrich : SUBSET Identifiers,
   missed : SUBSET Identifiers, info : SUBSET (Containers \X (Containers \cup {Host, NoOS})),
   images : [ImageIds -> Nat],
   pid : UNION {[S -> Pids \cup {NoPid}] : S \in SUBSET Containers}]

\* The state is well typed: in particular a PID is known of every container whose
\* os-release file is about to be read, and no series is that of a pause container.
TypeOK ==
  /\ onlyImagesInUse \in BOOLEAN
  /\ occupant \in [Pids -> Containers \cup {Host, Nobody}]
  /\ started \subseteq Containers
  /\ scrape \in Scrapes
  /\ scrape.toRead \subseteq scrape.toStatus \cup DOMAIN scrape.pid
  /\ \A series \in scrape.info : series[1] \notin Infra

\* The os-release labels a container should be reported with.
OwnOS(c) == IF c \in Distroless THEN NoOS ELSE c

\* A container that was listed and still runs is reported, with its own
\* os-release, whatever exited and whichever PIDs were used again meanwhile
\* (exporter.go: "Distroless/scratch - emit the metric with empty os-release
\* labels so the container is still visible in adoption queries").
SteadyContainersReported ==
  scrape.pc = "up" =>
    \A c \in (DOMAIN scrape.pid \cap Running) \ Unreadable :
      scrape.pid[c] # NoPid => <<c, OwnOS(c)>> \in scrape.info

\* exporter.go: "one node_image_labels series per (image_id, OCI label key) and
\* one node_image_created series per image_id": a duplicate makes the registry
\* fail the whole scrape.
OneSeriesPerImage ==
  \A i \in ImageIds : scrape.images[i] <= 1

\* In the in-use mode an image is reported if and only if a container that the
\* scrape listed runs it, by whichever identifier the runtime gives it, unless the
\* runtime failed to tell about that identifier: one failing ImageStatus costs no
\* other image, and no image of a container that was not listed is reported
\* (docs/node-exporter.md: "only cover images backing a running container").
InUseImagesReported ==
  onlyImagesInUse /\ scrape.pc = "up" =>
    \A i \in ImageIds :
      scrape.images[i] > 0 <=>
        \E c \in DOMAIN scrape.pid :
          IdentifierOf(c) \notin {NoId} \cup scrape.missed /\ ImageOf[IdentifierOf(c)] = i

===============================================================================
