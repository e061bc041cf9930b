-------------------------- MODULE NodeExporterProofs --------------------------
(* Proofs about NodeExporter, ImageMetadata and OSRelease, for every set of     *)
(* containers, PIDs and images, every answer of the runtime and every file.     *)
EXTENDS NodeExporter, ImageMetadata, OSRelease, SequenceTheorems, WellFoundedInduction, TLAPS

-------------------------------------------------------------------------------
(* A scrape of the node.                                                       *)

\* A container has one init process, and only while it is one that was started.
ProcessInv ==
  /\ Running \subseteq started
  /\ \A p, q \in Pids : occupant[p] = occupant[q] /\ occupant[p] \in Containers => p = q

\* What a scrape still has to do: no file is read before the last PID is known,
\* no image is gathered before the last file is read.
ProgressInv ==
  /\ scrape.toStatus \subseteq scrape.toRead
  /\ scrape.pc # "containers" => scrape.toRead = {}
  /\ scrape.pc # "images" => scrape.toEnrich = {}

\* Every container of a scrape was running when it was listed.
ListedInv ==
  scrape.toRead \cup DOMAIN scrape.pid \subseteq started \ Infra

\* A PID is that of its container for as long as the container runs.
PidInv ==
  \A c \in DOMAIN scrape.pid \cap Running :
    scrape.pid[c] # NoPid => occupant[scrape.pid[c]] = c

\* What was read from a container that still runs is its own.
ReadInv ==
  \A c \in (DOMAIN scrape.pid \cap Running) \ (Unreadable \cup scrape.toRead) :
    scrape.pid[c] # NoPid => <<c, OwnOS(c)>> \in scrape.info

NodeInv == TypeOK /\ ProcessInv /\ ProgressInv /\ ListedInv /\ PidInv /\ ReadInv


\* The fields of a scrape, one by one.
LEMMA ScrapeFields ==
  ASSUME TypeOK
  PROVE  /\ scrape.pc \in {"idle", "containers", "images", "up", "down"}
         /\ scrape.toStatus \subseteq Containers /\ scrape.toRead \subseteq Containers
         /\ scrape.toEnrich \subseteq Identifiers /\ scrape.missed \subseteq Identifiers
         /\ scrape.info \subseteq Containers \X (Containers \cup {Host, NoOS})
         /\ scrape.images \in [ImageIds -> Nat]
         /\ scrape.pid \in [DOMAIN scrape.pid -> Pids \cup {NoPid}]
         /\ DOMAIN scrape.pid \subseteq Containers
BY DEF TypeOK, Scrapes

\* The empty scrape is one.
LEMMA NoScrapeTyped ==
  /\ NoScrape \in Scrapes /\ DOMAIN NoScrape.pid = {}
  /\ NoScrape.toStatus = {} /\ NoScrape.toRead = {} /\ NoScrape.toEnrich = {}
  /\ NoScrape.missed = {}
  /\ \A i \in ImageIds : NoScrape.images[i] = 0
BY DEF NoScrape, Scrapes

LEMMA NodeInit ==
  ASSUME Init
  PROVE  NodeInv
<1>1. TypeOK
  BY NoScrapeTyped DEF Init, TypeOK, NoScrape
<1>2. Running = {}
  BY NodeAssumption DEF Init, Running
<1> QED
  BY <1>1, <1>2, NodeAssumption, NoScrapeTyped
  DEF Init, NoScrape, NodeInv, ProcessInv, ProgressInv, ListedInv, PidInv, ReadInv

\* Containers and processes come and go.
LEMMA OccupantStep ==
  ASSUME NodeInv, NEW p \in Pids,
         (\E c \in Containers : StartContainer(c, p)) \/ StartProcess(p) \/ Exit(p)
  PROVE  NodeInv'
<1>1. PICK x \in Containers \cup {Host, Nobody} :
        /\ occupant' = [occupant EXCEPT ![p] = x] /\ x \notin started
        /\ started' = started \cup ({x} \cap Containers)
        /\ UNCHANGED <<onlyImagesInUse, scrape>>
  BY NodeAssumption DEF StartContainer, StartProcess, Exit, NodeInv, TypeOK
<1>2. TypeOK'
  BY <1>1 DEF NodeInv, TypeOK, Scrapes
<1>3. \A c \in Running' : c \in Running \/ c = x
  BY <1>1 DEF NodeInv, TypeOK, Running
<1>4. ProcessInv'
  BY <1>1, <1>3 DEF NodeInv, TypeOK, ProcessInv, Running
<1>5. ProgressInv' /\ ListedInv'
  BY <1>1 DEF NodeInv, ProgressInv, ListedInv
<1>6. \A c \in started : c \in Running' => c \in Running
  BY <1>1, <1>3
<1>7. \A c \in started, q \in Pids : c \in Running' /\ occupant[q] = c => occupant'[q] = c
  BY <1>1 DEF NodeInv, TypeOK, ProcessInv, Running
<1>8. PidInv'
  BY <1>1, <1>6, <1>7, ScrapeFields DEF NodeInv, ListedInv, PidInv
<1>9. ReadInv'
  BY <1>1, <1>6 DEF NodeInv, ListedInv, ReadInv
<1> QED BY <1>2, <1>4, <1>5, <1>8, <1>9 DEF NodeInv

\* A scrape begins.
LEMMA ListStep ==
  ASSUME NodeInv, ListContainers \/ ListContainersFails
  PROVE  NodeInv'
<1>1. PICK listed \in SUBSET (Running \ Infra), pc \in {"containers", "down"} :
        /\ pc = "down" => listed = {}
        /\ scrape' = [NoScrape EXCEPT !.pc = pc, !.toStatus = listed, !.toRead = listed]
        /\ UNCHANGED <<onlyImagesInUse, occupant, started>>
  <2>1. CASE ListContainers
    BY <2>1 DEF ListContainers
  <2>2. CASE ListContainersFails
    <3>1. [NoScrape EXCEPT !.pc = "down"] = [NoScrape EXCEPT !.pc = "down", !.toStatus = {}, !.toRead = {}]
      BY NoScrapeTyped DEF Scrapes
    <3> QED BY <2>2, <3>1 DEF ListContainersFails
  <2> QED BY <2>1, <2>2
<1>2. /\ scrape'.pc = pc /\ scrape'.toStatus = listed /\ scrape'.toRead = listed
      /\ scrape'.toEnrich = {} /\ scrape'.info = {} /\ DOMAIN scrape'.pid = {}
  BY <1>1 DEF NoScrape
<1>3. listed \subseteq Containers /\ listed \subseteq started \ Infra
  BY <1>1 DEF NodeInv, TypeOK, ProcessInv, Running
<1>4. TypeOK'
  <2>1. scrape' \in Scrapes
    BY <1>1, <1>3, NoScrapeTyped DEF Scrapes, NoScrape
  <2> QED BY <1>1, <1>2, <2>1 DEF NodeInv, TypeOK
<1>5. ProcessInv'
  BY <1>1 DEF NodeInv, ProcessInv, Running
<1>6. ProgressInv' /\ ListedInv'
  BY <1>1, <1>2, <1>3 DEF ProgressInv, ListedInv
<1>7. PidInv' /\ ReadInv'
  BY <1>2 DEF PidInv, ReadInv
<1> QED BY <1>4, <1>5, <1>6, <1>7 DEF NodeInv

\* The runtime tells the PID that a container has now, or none.
LEMMA PIDStep ==
  ASSUME NodeInv, NEW c \in Containers, ContainerPID(c)
  PROVE  NodeInv'
<1>1. PICK p \in {q \in Pids : occupant[q] = c} \cup {NoPid} :
        scrape' = [scrape EXCEPT !.toStatus = @ \ {c},
                     !.pid = [x \in DOMAIN @ \cup {c} |-> IF x = c THEN p ELSE @[x]]]
  BY DEF ContainerPID
<1> DEFINE P == [x \in DOMAIN scrape.pid \cup {c} |-> IF x = c THEN p ELSE scrape.pid[x]]
<1>2. /\ c \in scrape.toStatus /\ UNCHANGED <<onlyImagesInUse, occupant, started>>
      /\ Running' = Running
  BY DEF ContainerPID, Running
<1>3. /\ scrape'.pc = scrape.pc /\ scrape'.toStatus = scrape.toStatus \ {c}
      /\ scrape'.toRead = scrape.toRead /\ scrape'.toEnrich = scrape.toEnrich
      /\ scrape'.info = scrape.info /\ scrape'.pid = P
  BY <1>1 DEF NodeInv, TypeOK, Scrapes
<1>4. P \in [DOMAIN P -> Pids \cup {NoPid}] /\ DOMAIN P = DOMAIN scrape.pid \cup {c}
  BY ScrapeFields DEF NodeInv
<1>5. TypeOK'
  <2>1. P \in UNION {[S -> Pids \cup {NoPid}] : S \in SUBSET Containers}
    <3>1. DOMAIN P \in SUBSET Containers
      BY <1>4, ScrapeFields DEF NodeInv
    <3> HIDE DEF P
    <3> QED BY <1>4, <3>1
  <2> HIDE DEF P
  <2>2. scrape' = [[scrape EXCEPT !.toStatus = scrape.toStatus \ {c}] EXCEPT !.pid = P]
    BY <1>1 DEF NodeInv, TypeOK, Scrapes, P
  <2>3. scrape' \in Scrapes
    BY <2>1, <2>2 DEF NodeInv, TypeOK, Scrapes
  <2> QED BY <1>2, <1>3, <1>4, <2>3 DEF NodeInv, TypeOK
<1> HIDE DEF P
<1>6. ProcessInv'
  BY <1>2 DEF NodeInv, ProcessInv
<1>7. ProgressInv' /\ ListedInv' /\ c \in scrape.toRead
  BY <1>2, <1>3, <1>4 DEF NodeInv, ProgressInv, ListedInv
<1>8. PidInv'
  BY <1>1, <1>2, <1>3, <1>4 DEF NodeInv, PidInv, P
<1>9. ReadInv'
  BY <1>2, <1>3, <1>4, <1>7 DEF NodeInv, ReadInv, P
<1> QED BY <1>5, <1>6, <1>7, <1>8, <1>9 DEF NodeInv

\* An os-release file is read, through a PID that may be another's by now.
LEMMA ReadStep ==
  ASSUME NodeInv, NEW c \in Containers, ReadOSRelease(c)
  PROVE  NodeInv'
<1> DEFINE p == scrape.pid[c]
           read == IF CanRead(p) THEN {<<c, OSOf(p)>>} ELSE {}
<1>1. /\ scrape.toStatus = {} /\ c \in scrape.toRead
      /\ UNCHANGED <<onlyImagesInUse, occupant, started>>
      /\ scrape' = [scrape EXCEPT !.toRead = @ \ {c},
                      !.info = IF CanRead(p) THEN @ \cup {<<c, OSOf(p)>>} ELSE @]
      /\ Running' = Running
  BY DEF ReadOSRelease, Running
<1>2. c \in DOMAIN scrape.pid /\ p \in Pids \cup {NoPid} /\ c \notin Infra
  BY <1>1, ScrapeFields DEF NodeInv, TypeOK, ListedInv
<1>3. /\ scrape'.pc = scrape.pc /\ scrape'.toStatus = scrape.toStatus
      /\ scrape'.toRead = scrape.toRead \ {c} /\ scrape'.toEnrich = scrape.toEnrich
      /\ scrape'.info = scrape.info \cup read /\ scrape'.pid = scrape.pid
  BY <1>1 DEF NodeInv, TypeOK, Scrapes
<1>4. read \subseteq Containers \X (Containers \cup {Host, NoOS})
  BY <1>2 DEF CanRead, OSOf, NodeInv, TypeOK
<1>5. \A series \in read : series[1] = c
  OBVIOUS
<1>6. c \in Running \ Unreadable /\ p # NoPid => read = {<<c, OwnOS(c)>>}
  <2> SUFFICES ASSUME c \in Running \ Unreadable, p # NoPid PROVE read = {<<c, OwnOS(c)>>}
    OBVIOUS
  <2>1. occupant[p] = c
    BY <1>2 DEF NodeInv, PidInv
  <2>2. CanRead(p)
    BY <2>1, NodeAssumption DEF CanRead
  <2>3. OSOf(p) = OwnOS(c)
    BY <2>1 DEF OSOf, OwnOS
  <2> QED BY <2>2, <2>3
<1>7. TypeOK'
  <2>1. scrape.info \cup read \subseteq Containers \X (Containers \cup {Host, NoOS})
    BY <1>4, ScrapeFields DEF NodeInv
  <2>2. scrape' = [[scrape EXCEPT !.toRead = scrape.toRead \ {c}] EXCEPT !.info = scrape.info \cup read]
    BY <1>1 DEF NodeInv, TypeOK, Scrapes
  <2> HIDE DEF read
  <2>3. scrape' \in Scrapes
    BY <2>1, <2>2 DEF NodeInv, TypeOK, Scrapes
  <2> QED BY <1>1, <1>2, <1>3, <1>5, <2>3 DEF NodeInv, TypeOK
<1> HIDE DEF read, p
<1>8. ProcessInv' /\ ProgressInv' /\ ListedInv' /\ PidInv'
  BY <1>1, <1>3 DEF NodeInv, ProcessInv, ProgressInv, ListedInv, PidInv
<1>9. ReadInv'
  BY <1>1, <1>3, <1>6 DEF NodeInv, ReadInv, p
<1> QED BY <1>7, <1>8, <1>9 DEF NodeInv

\* The images are gathered and emitted, one after the other.
LEMMA ImageStep ==
  ASSUME NodeInv,
         \/ GatherInUse \/ ListImages \/ ListImagesFails \/ FinishCollect
         \/ \E id \in Identifiers : EmitImage(id) \/ SkipImage(id)
  PROVE  NodeInv'
<1> DEFINE Moved(pc, todo, missed, n) ==
             [scrape EXCEPT !.pc = pc, !.toEnrich = todo, !.missed = missed, !.images = n]
           Steps(pc, todo, missed, n) ==
             /\ pc \in {"images", "up", "down"} /\ (pc # "images" => todo = {})
             /\ todo \subseteq Identifiers /\ missed \subseteq Identifiers
             /\ n \in [ImageIds -> Nat]
             /\ scrape' = Moved(pc, todo, missed, n)
<1>1. /\ scrape \in Scrapes /\ scrape.images \in [ImageIds -> Nat]
      /\ scrape.toEnrich \subseteq Identifiers /\ scrape.missed \subseteq Identifiers
  BY ScrapeFields DEF NodeInv, TypeOK
<1>2. UNCHANGED <<onlyImagesInUse, occupant, started>> /\ scrape.toRead = {}
  BY DEF GatherInUse, ListImages, ListImagesFails, FinishCollect, ContainersRead, EmitImage,
         SkipImage, NodeInv, ProgressInv
<1>3. \E pc, todo, missed, n : Steps(pc, todo, missed, n)
  <2>1. CASE GatherInUse
    <3> DEFINE todo == {IdentifierOf(c) : c \in DOMAIN scrape.pid} \ {NoId}
    <3>1. todo \subseteq Identifiers
      BY NodeAssumption, ScrapeFields DEF IdentifierOf, NodeInv
    <3>2. scrape' = [scrape EXCEPT !.pc = "images", !.toEnrich = todo]
      BY <2>1 DEF GatherInUse
    <3> HIDE DEF todo
    <3>3. scrape' = Moved("images", todo, scrape.missed, scrape.images)
      BY <1>1, <3>2 DEF Scrapes
    <3> HIDE DEF Moved
    <3> QED BY <1>1, <3>1, <3>3
  <2>2. CASE ListImages
    <3>1. PICK todo \in SUBSET ImageIds : scrape' = [scrape EXCEPT !.pc = "images", !.toEnrich = todo]
      BY <2>2 DEF ListImages
    <3>2. scrape' = Moved("images", todo, scrape.missed, scrape.images)
      BY <1>1, <3>1 DEF Scrapes
    <3> HIDE DEF Moved
    <3> QED BY <1>1, <3>1, <3>2, NodeAssumption
  <2>3. CASE ListImagesFails
    <3>1. scrape' = Moved("down", scrape.toEnrich, scrape.missed, scrape.images)
      BY <1>1, <2>3 DEF ListImagesFails, Scrapes
    <3>2. scrape.toEnrich = {}
      BY <2>3 DEF ListImagesFails, ContainersRead, NodeInv, ProgressInv
    <3> HIDE DEF Moved
    <3> QED BY <1>1, <3>1, <3>2
  <2>4. CASE FinishCollect
    <3>1. scrape' = Moved("up", scrape.toEnrich, scrape.missed, scrape.images)
      BY <1>1, <2>4 DEF FinishCollect, Scrapes
    <3>2. scrape.toEnrich = {}
      BY <2>4 DEF FinishCollect
    <3> HIDE DEF Moved
    <3> QED BY <1>1, <3>1, <3>2
  <2>5. ASSUME NEW id \in Identifiers, EmitImage(id) \/ SkipImage(id)
        PROVE  \E pc, todo, missed, n : Steps(pc, todo, missed, n)
    <3> DEFINE todo == scrape.toEnrich \ {id}
               n == [scrape.images EXCEPT ![ImageOf[id]] = @ + 1]
    <3>1. scrape.pc = "images" /\ todo \subseteq Identifiers
      BY <1>1, <2>5 DEF EmitImage, SkipImage, NodeInv, ProgressInv
    <3>2. n \in [ImageIds -> Nat]
      BY <1>1, NodeAssumption
    <3>3. CASE EmitImage(id)
      <4>1. scrape' = Moved("images", todo, scrape.missed, n)
        BY <1>1, <3>1, <3>3 DEF EmitImage, Scrapes
      <4> HIDE DEF Moved, n, todo
      <4> QED BY <1>1, <3>1, <3>2, <4>1
    <3>4. CASE SkipImage(id)
      <4>1. scrape' = Moved("images", todo, scrape.missed \cup {id}, scrape.images)
        BY <1>1, <3>1, <3>4 DEF SkipImage, Scrapes
      <4> DEFINE missed == scrape.missed \cup {id}
      <4>2. missed \subseteq Identifiers
        BY <1>1
      <4> HIDE DEF Moved, todo, missed
      <4> QED BY <1>1, <3>1, <4>1, <4>2 DEF missed
    <3> QED BY <2>5, <3>3, <3>4
  <2> QED BY <2>1, <2>2, <2>3, <2>4, <2>5
<1>4. PICK pc, todo, missed, n : Steps(pc, todo, missed, n)
  BY <1>3
<1>5. /\ scrape'.pc = pc /\ scrape'.toStatus = scrape.toStatus /\ scrape'.toRead = {}
      /\ scrape'.toEnrich = todo /\ scrape'.info = scrape.info /\ scrape'.pid = scrape.pid
      /\ Running' = Running
  BY <1>1, <1>2, <1>4 DEF Scrapes, Running
<1>6. TypeOK'
  <2>1. scrape' \in Scrapes
    BY <1>1, <1>4 DEF Scrapes
  <2> QED BY <1>2, <1>5, <2>1 DEF NodeInv, TypeOK
<1>7. ProcessInv' /\ ProgressInv' /\ ListedInv' /\ PidInv' /\ ReadInv'
  BY <1>2, <1>4, <1>5 DEF NodeInv, ProcessInv, ProgressInv, ListedInv, PidInv, ReadInv
<1> QED BY <1>6, <1>7 DEF NodeInv

\* The invariant of a scrape.
THEOREM NodeInvHolds == Spec => []NodeInv
<1>1. ASSUME NodeInv, [Next]_vars PROVE NodeInv'
  <2>1. CASE UNCHANGED vars
    BY <1>1, <2>1 DEF vars, NodeInv, TypeOK, ProcessInv, ProgressInv, ListedInv, PidInv, ReadInv, Running
  <2> QED BY <1>1, <2>1, OccupantStep, ListStep, PIDStep, ReadStep, ImageStep DEF Next
<1> QED BY <1>1, NodeInit, PTL DEF Spec

\* A scrape is well typed, and no series of it is that of a pause container
\* (the sandbox filter of listContainers).
THEOREM ScrapeTyped == Spec => []TypeOK
BY NodeInvHolds, PTL DEF NodeInv

\* A container that was listed and still runs is reported with its own os-release,
\* whichever PIDs were used again meanwhile (Collect reads /proc/<pid>/root).
THEOREM SteadyContainersAreReported == Spec => []SteadyContainersReported
<1>1. NodeInv => SteadyContainersReported
  BY DEF NodeInv, ProgressInv, ReadInv, SteadyContainersReported
<1> QED BY <1>1, NodeInvHolds, PTL

-------------------------------------------------------------------------------
(* The images of a scrape.                                                     *)

\* The runtime reports one image under one identifier, whichever container is
\* asked for: the case in which exporter.go is right about its series.
OneIdentifierPerImage ==
  \A c, d \in Containers :
    /\ IdentifierOf(c) # NoId /\ IdentifierOf(d) # NoId
    /\ ImageOf[IdentifierOf(c)] = ImageOf[IdentifierOf(d)]
    => IdentifierOf(c) = IdentifierOf(d)

\* No image is emitted twice: none that was is still to come, and of those to
\* come no two are the same.
SeriesInv ==
  /\ scrape.pc \notin {"images", "up", "down"} => \A i \in ImageIds : scrape.images[i] = 0
  /\ \A i \in ImageIds : scrape.images[i] <= 1
  /\ \A id \in scrape.toEnrich : scrape.images[ImageOf[id]] = 0
  /\ \A a, b \in scrape.toEnrich : ImageOf[a] = ImageOf[b] => a = b

\* The identifiers of the containers that were listed.
InUse == {IdentifierOf(c) : c \in DOMAIN scrape.pid} \ {NoId}

\* The identifiers in use that are behind the scrape and were not missed are those
\* of the images with a series.
InUseInv ==
  onlyImagesInUse =>
    IF scrape.pc \in {"images", "up"}
    THEN /\ scrape.toEnrich \subseteq InUse /\ scrape.missed \cap scrape.toEnrich = {}
         /\ \A i \in ImageIds :
              scrape.images[i] > 0 <=>
                \E id \in InUse \ (scrape.toEnrich \cup scrape.missed) : ImageOf[id] = i
    ELSE scrape.missed = {} /\ \A i \in ImageIds : scrape.images[i] = 0

\* What the steps before the images are gathered leave of these.
LEMMA EarlyStep ==
  ASSUME NodeInv,
         \/ \E p \in Pids :
              (\E c \in Containers : StartContainer(c, p)) \/ StartProcess(p) \/ Exit(p)
         \/ ListContainers \/ ListContainersFails
         \/ \E c \in Containers : ContainerPID(c) \/ ReadOSRelease(c)
  PROVE  (SeriesInv => SeriesInv') /\ (InUseInv => InUseInv')
<1>1. CASE \E p \in Pids :
             (\E c \in Containers : StartContainer(c, p)) \/ StartProcess(p) \/ Exit(p)
  <2>1. UNCHANGED <<onlyImagesInUse, scrape>>
    BY <1>1 DEF StartContainer, StartProcess, Exit
  <2> QED BY <2>1 DEF SeriesInv, InUseInv, InUse
<1>2. CASE ListContainers \/ ListContainersFails
  <2>1. /\ scrape'.pc \in {"containers", "down"} /\ scrape'.toEnrich = {}
        /\ scrape'.missed = {} /\ \A i \in ImageIds : scrape'.images[i] = 0
    <3>1. /\ scrape'.pc \in {"containers", "down"} /\ scrape'.toEnrich = NoScrape.toEnrich
          /\ scrape'.missed = NoScrape.missed /\ scrape'.images = NoScrape.images
      BY <1>2, NoScrapeTyped DEF ListContainers, ListContainersFails, Scrapes
    <3> QED BY <3>1, NoScrapeTyped
  <2> QED BY <2>1 DEF SeriesInv, InUseInv
<1>3. ASSUME NEW c \in Containers, ContainerPID(c) \/ ReadOSRelease(c)
      PROVE  (SeriesInv => SeriesInv') /\ (InUseInv => InUseInv')
  <2>1. /\ scrape'.pc = scrape.pc /\ scrape'.toEnrich = scrape.toEnrich
        /\ scrape'.images = scrape.images /\ scrape'.missed = scrape.missed
        /\ onlyImagesInUse' = onlyImagesInUse
    <3>1. scrape \in Scrapes
      BY DEF NodeInv, TypeOK
    <3>2. CASE ContainerPID(c)
      BY <3>1, <3>2 DEF ContainerPID, Scrapes
    <3>3. CASE ReadOSRelease(c)
      BY <3>1, <3>3 DEF ReadOSRelease, Scrapes
    <3> QED BY <1>3, <3>2, <3>3
  <2>2. scrape.pc = "containers"
    BY <1>3 DEF ContainerPID, ReadOSRelease, NodeInv, ProgressInv
  <2> QED BY <2>1, <2>2 DEF SeriesInv, InUseInv
<1> QED BY <1>1, <1>2, <1>3

\* And those that gather and emit the images, when each has one identifier.
LEMMA SeriesStep ==
  ASSUME OneIdentifierPerImage, NodeInv, SeriesInv,
         \/ GatherInUse \/ ListImages \/ ListImagesFails \/ FinishCollect
         \/ \E id \in Identifiers : EmitImage(id) \/ SkipImage(id)
  PROVE  SeriesInv'
<1>1. scrape \in Scrapes /\ scrape.images \in [ImageIds -> Nat] /\ scrape.toEnrich \subseteq Identifiers
      /\ DOMAIN scrape.pid \subseteq Containers
  BY ScrapeFields DEF NodeInv, TypeOK
<1>2. CASE GatherInUse \/ ListImages
  <2>1. scrape.pc = "containers" /\ scrape'.pc = "images" /\ scrape'.images = scrape.images
    BY <1>1, <1>2 DEF GatherInUse, ListImages, ContainersRead, Scrapes
  <2>2. \A a, b \in scrape'.toEnrich : ImageOf[a] = ImageOf[b] => a = b
    <3>1. CASE GatherInUse
      <4>1. scrape'.toEnrich = {IdentifierOf(c) : c \in DOMAIN scrape.pid} \ {NoId}
        BY <1>1, <3>1 DEF GatherInUse, Scrapes
      <4> QED BY <1>1, <4>1 DEF OneIdentifierPerImage
    <3>2. CASE ListImages
      <4>1. scrape'.toEnrich \subseteq ImageIds
        BY <1>1, <3>2 DEF ListImages, Scrapes
      <4> QED BY <4>1, NodeAssumption
    <3> QED BY <1>2, <3>1, <3>2
  <2>3. scrape'.toEnrich \subseteq Identifiers
    <3>1. CASE GatherInUse
      <4>1. scrape'.toEnrich = {IdentifierOf(c) : c \in DOMAIN scrape.pid} \ {NoId}
        BY <1>1, <3>1 DEF GatherInUse, Scrapes
      <4> QED BY <1>1, <4>1, NodeAssumption DEF IdentifierOf
    <3>2. CASE ListImages
      BY <1>1, <3>2, NodeAssumption DEF ListImages, Scrapes
    <3> QED BY <1>2, <3>1, <3>2
  <2>4. \A id \in scrape'.toEnrich : ImageOf[id] \in ImageIds
    BY <2>3, NodeAssumption
  <2> QED BY <2>1, <2>2, <2>4 DEF SeriesInv
<1>3. CASE ListImagesFails \/ FinishCollect
  <2>1. /\ scrape'.pc \in {"down", "up"} /\ scrape'.images = scrape.images
        /\ scrape'.toEnrich = scrape.toEnrich
    BY <1>1, <1>3 DEF ListImagesFails, FinishCollect, Scrapes
  <2> QED BY <2>1 DEF SeriesInv
<1>4. ASSUME NEW id \in Identifiers, EmitImage(id) PROVE SeriesInv'
  <2>1. /\ id \in scrape.toEnrich /\ scrape'.pc = scrape.pc
        /\ scrape'.toEnrich = scrape.toEnrich \ {id}
        /\ scrape'.images = [scrape.images EXCEPT ![ImageOf[id]] = @ + 1]
    BY <1>1, <1>4 DEF EmitImage, Scrapes
  <2>2. scrape.pc = "images" /\ ImageOf[id] \in ImageIds
    BY <2>1, NodeAssumption DEF NodeInv, ProgressInv
  <2>3. /\ scrape.images[ImageOf[id]] = 0
        /\ \A i \in ImageIds : scrape'.images[i] = IF i = ImageOf[id] THEN 1 ELSE scrape.images[i]
    BY <1>1, <2>1, <2>2 DEF SeriesInv
  <2>4. \A a \in scrape'.toEnrich : ImageOf[a] # ImageOf[id] /\ ImageOf[a] \in ImageIds
    BY <1>1, <2>1, NodeAssumption DEF SeriesInv
  <2> QED BY <2>1, <2>2, <2>3, <2>4 DEF SeriesInv
<1>5. ASSUME NEW id \in Identifiers, SkipImage(id) PROVE SeriesInv'
  <2>1. /\ scrape'.toEnrich = scrape.toEnrich \ {id} /\ scrape'.pc = scrape.pc
        /\ scrape'.images = scrape.images
    BY <1>1, <1>5 DEF SkipImage, Scrapes
  <2> QED BY <2>1 DEF SeriesInv
<1> QED BY <1>2, <1>3, <1>4, <1>5

\* And when only the images in use are asked for.
LEMMA InUseStep ==
  ASSUME NodeInv, InUseInv,
         \/ GatherInUse \/ ListImages \/ ListImagesFails \/ FinishCollect
         \/ \E id \in Identifiers : EmitImage(id) \/ SkipImage(id)
  PROVE  InUseInv'
<1>1. scrape \in Scrapes /\ scrape.images \in [ImageIds -> Nat]
  BY ScrapeFields DEF NodeInv, TypeOK
<1>2. onlyImagesInUse' = onlyImagesInUse /\ InUse' = InUse
  <2>1. onlyImagesInUse' = onlyImagesInUse /\ scrape'.pid = scrape.pid
    BY <1>1 DEF GatherInUse, ListImages, ListImagesFails, FinishCollect, EmitImage, SkipImage, Scrapes
  <2> QED BY <2>1 DEF InUse
<1>3. CASE ~onlyImagesInUse
  BY <1>2, <1>3 DEF InUseInv
<1>4. CASE GatherInUse
  <2>1. /\ scrape.pc = "containers" /\ scrape'.pc = "images" /\ scrape'.toEnrich = InUse
        /\ scrape'.images = scrape.images /\ scrape'.missed = scrape.missed
    BY <1>1, <1>4 DEF GatherInUse, ContainersRead, Scrapes, InUse
  <2> QED BY <1>1, <1>2, <2>1 DEF InUseInv
<1>5. CASE ListImages \/ ListImagesFails
  BY <1>2, <1>5 DEF ListImages, ListImagesFails, InUseInv
<1>6. CASE FinishCollect
  <2>1. /\ scrape.pc = "images" /\ scrape'.pc = "up" /\ scrape'.toEnrich = scrape.toEnrich
        /\ scrape'.images = scrape.images /\ scrape'.missed = scrape.missed
    BY <1>1, <1>6 DEF FinishCollect, Scrapes
  <2> QED BY <1>2, <2>1 DEF InUseInv
<1>7. ASSUME onlyImagesInUse, NEW id \in Identifiers, SkipImage(id) PROVE InUseInv'
  <2>1. /\ id \in scrape.toEnrich /\ scrape'.toEnrich = scrape.toEnrich \ {id}
        /\ scrape'.missed = scrape.missed \cup {id}
        /\ scrape'.images = scrape.images /\ scrape'.pc = scrape.pc
    BY <1>1, <1>7 DEF SkipImage, Scrapes
  <2>2. scrape.pc = "images"
    BY <2>1 DEF NodeInv, ProgressInv
  <2>3. scrape'.toEnrich \cup scrape'.missed = scrape.toEnrich \cup scrape.missed
    BY <2>1
  <2> QED BY <1>2, <1>7, <2>1, <2>2, <2>3 DEF InUseInv
<1>8. ASSUME onlyImagesInUse, NEW id \in Identifiers, EmitImage(id) PROVE InUseInv'
  <2>1. /\ id \in scrape.toEnrich /\ scrape'.toEnrich = scrape.toEnrich \ {id}
        /\ scrape'.images = [scrape.images EXCEPT ![ImageOf[id]] = @ + 1]
        /\ scrape'.missed = scrape.missed /\ scrape'.pc = scrape.pc
    BY <1>1, <1>8 DEF EmitImage, Scrapes
  <2>2. scrape.pc = "images" /\ ImageOf[id] \in ImageIds
    BY <2>1, NodeAssumption DEF NodeInv, ProgressInv
  <2>3. /\ scrape.toEnrich \subseteq InUse /\ scrape.missed \cap scrape.toEnrich = {}
        /\ \A i \in ImageIds :
             scrape.images[i] > 0 <=>
               \E x \in InUse \ (scrape.toEnrich \cup scrape.missed) : ImageOf[x] = i
    BY <1>8, <2>2 DEF InUseInv
  <2>4. InUse \ (scrape'.toEnrich \cup scrape'.missed) =
          (InUse \ (scrape.toEnrich \cup scrape.missed)) \cup {id}
    BY <2>1, <2>3
  <2>5. \A i \in ImageIds :
          scrape'.images[i] = IF i = ImageOf[id] THEN scrape.images[i] + 1 ELSE scrape.images[i]
    BY <1>1, <2>1, <2>2
  <2>6. \A i \in ImageIds : scrape'.images[i] > 0 <=> i = ImageOf[id] \/ scrape.images[i] > 0
    BY <1>1, <2>2, <2>5
  <2> QED BY <1>2, <1>8, <2>1, <2>2, <2>3, <2>4, <2>6 DEF InUseInv
<1> QED BY <1>3, <1>4, <1>5, <1>6, <1>7, <1>8

\* Each image has one series if the runtime has one identifier for it
\* (gatherImages, whose map seen has the identifiers as keys).
THEOREM ImagesHaveOneSeries ==
  ASSUME OneIdentifierPerImage
  PROVE  Spec => []OneSeriesPerImage
<1>1. ASSUME Init PROVE SeriesInv
  BY <1>1 DEF Init, NoScrape, SeriesInv
<1>2. ASSUME NodeInv, SeriesInv, [Next]_vars PROVE SeriesInv'
  <2>1. CASE UNCHANGED vars
    BY <1>2, <2>1 DEF vars, SeriesInv
  <2> QED BY <1>2, <2>1, EarlyStep, SeriesStep DEF Next
<1>3. SeriesInv => OneSeriesPerImage
  BY DEF SeriesInv, OneSeriesPerImage
<1> QED BY <1>1, <1>2, <1>3, NodeInvHolds, PTL DEF Spec

\* With --only-images-in-use exactly the images of the listed containers are
\* reported, whatever the runtime calls them and whichever it fails to tell about
\* (gatherImages goes on after an error of ImageStatus).
THEOREM InUseImagesAreReported == Spec => []InUseImagesReported
<1>1. ASSUME Init PROVE InUseInv
  BY <1>1 DEF Init, NoScrape, InUseInv
<1>2. ASSUME NodeInv, InUseInv, [Next]_vars PROVE InUseInv'
  <2>1. CASE UNCHANGED vars
    BY <1>2, <2>1 DEF vars, InUseInv, InUse
  <2> QED BY <1>2, <2>1, EarlyStep, InUseStep DEF Next
<1>3. NodeInv /\ InUseInv => InUseImagesReported
  <2> SUFFICES ASSUME NodeInv, InUseInv, onlyImagesInUse, scrape.pc = "up", NEW i \in ImageIds
      PROVE  scrape.images[i] > 0 <=>
               \E c \in DOMAIN scrape.pid :
                 IdentifierOf(c) \notin {NoId} \cup scrape.missed /\ ImageOf[IdentifierOf(c)] = i
    BY DEF InUseImagesReported
  <2>1. scrape.images[i] > 0 <=> \E id \in InUse \ scrape.missed : ImageOf[id] = i
    BY DEF InUseInv, NodeInv, ProgressInv
  <2> QED BY <2>1 DEF InUse
<1> QED BY <1>1, <1>2, <1>3, NodeInvHolds, PTL DEF Spec

-------------------------------------------------------------------------------
(* The metadata of an image.                                                   *)

\* What a status has in meta, whatever the runtime answered.
MetaOf(answer) == IF answer = NoImage THEN Nothing ELSE ParseImageInfo(answer)

\* The status of an image goes through what its answer determines.
ImageInv ==
  /\ image = [pc |-> image.pc, answer |-> image.answer, meta |-> image.meta,
              created |-> image.created, series |-> image.series]
  /\ image.pc \in {"idle", "enriched", "emitted"} /\ image.answer \in Answers
  /\ image.pc # "idle" => image.meta = MetaOf(image.answer)
  /\ image.pc # "emitted" => image.series = {}
  /\ image.pc = "emitted" =>
       /\ image.created = IF image.answer = NoImage THEN {} ELSE {image.meta.created} \ {NoTime}
       /\ image.series = {[key |-> k, value |-> TruncateLabelValue(image.meta.labels[k])] :
                            k \in {key \in DOMAIN image.meta.labels : Allowed(key)}}

\* A bounded set of numbers has a greatest.
LEMMA GreatestExists ==
  ASSUME NEW n \in Nat, NEW S \in SUBSET (0..n), S # {}
  PROVE  Max(S) \in S /\ \A x \in S : x <= Max(S)
<1> DEFINE T == {n - x : x \in S}
<1>1. T \subseteq Nat /\ T # {}
  <2>1. \A x \in S : n - x \in Nat
    OBVIOUS
  <2> QED BY <2>1
<1>2. PICK t \in T : \A u \in T : <<u, t>> \notin OpToRel(<, Nat)
  BY <1>1, NatLessThanWellFounded, WFMin
<1>3. PICK m \in S : t = n - m
  BY <1>2
<1>4. ASSUME NEW x \in S PROVE m >= x
  <2>1. n - x \in T /\ n - x \in Nat /\ t \in Nat
    BY <1>1, <1>2
  <2>2. ~(n - x < t)
    BY <1>2, <2>1 DEF OpToRel
  <2> QED BY <1>3, <2>2
<1>5. Max(S) \in S /\ \A x \in S : Max(S) >= x
  BY <1>3, <1>4 DEF Max
<1> QED BY <1>5

\* A value is kept if it fits, and else cut at the last start of a rune at which
\* it fits with the marker.
LEMMA TruncateIsWhole ==
  ASSUME NEW value, IsText(value)
  PROVE  LET out == TruncateLabelValue(value)
             ends == value.starts \cup {value.bytes}
         IN  /\ out.kept \in ends
             /\ IF out.marked
                THEN /\ value.bytes > MaxLabelBytes
                     /\ out.kept + MarkerBytes <= MaxLabelBytes
                     /\ \A e \in ends : e > out.kept => e + MarkerBytes > MaxLabelBytes
                ELSE out.kept = value.bytes /\ out.kept <= MaxLabelBytes
<1> DEFINE n == MaxLabelBytes - MarkerBytes
           S == {0} \cup (value.starts \cap 0..n)
<1>1. /\ MaxLabelBytes \in Nat /\ MarkerBytes \in Nat /\ n \in Nat
      /\ value.bytes \in Nat /\ value.starts \subseteq Nat
  BY MetadataAssumption DEF IsText
<1>2. CASE value.bytes <= MaxLabelBytes
  BY <1>1, <1>2 DEF TruncateLabelValue
<1>3. CASE value.bytes > MaxLabelBytes
  <2>1. 0 \in value.starts
    BY <1>1, <1>3 DEF IsText
  <2>2. S \subseteq 0..n /\ S \subseteq value.starts
    BY <1>1, <2>1
  <2>3. Max(S) \in S /\ \A x \in S : x <= Max(S)
    BY <1>1, <2>2, GreatestExists
  <2>4. TruncateLabelValue(value) = [kept |-> Max(S), marked |-> TRUE]
    BY <1>1, <1>3 DEF TruncateLabelValue
  <2> DEFINE m == Max(S)
  <2>5. m \in value.starts /\ m \in Nat /\ m <= n
    BY <1>1, <2>2, <2>3
  <2>6. ASSUME NEW e \in value.starts \cup {value.bytes}, e > m PROVE e + MarkerBytes > MaxLabelBytes
    <3>1. CASE e = value.bytes
      BY <1>1, <1>3, <3>1
    <3>2. CASE e \in value.starts
      <4>1. e \in Nat /\ m \in Nat /\ ~(e <= m)
        BY <1>1, <2>5, <2>6, <3>2
      <4>2. e \notin S
        BY <2>3, <4>1
      <4>3. ~(e <= n)
        BY <1>1, <3>2, <4>1, <4>2
      <4> HIDE DEF m, S
      <4> QED BY <1>1, <4>1, <4>3
    <3> QED BY <2>6, <3>1, <3>2
  <2>7. TruncateLabelValue(value).kept = m /\ TruncateLabelValue(value).marked
    BY <2>4
  <2>8. m + MarkerBytes <= MaxLabelBytes
    <3> HIDE DEF m, S
    <3> QED BY <1>1, <2>5
  <2> HIDE DEF m
  <2> QED BY <1>3, <2>5, <2>6, <2>7, <2>8
<1> QED BY <1>1, <1>2, <1>3

\* The labels of the status are those of the first shape that has any, and texts.
LEMMA SourceIsMeta ==
  ASSUME image.answer \in Answers, image.meta = MetaOf(image.answer),
         DOMAIN image.meta.labels # {}
  PROVE  /\ image.answer # NoImage
         /\ Source = image.meta.labels
         /\ \A k \in DOMAIN image.meta.labels : IsText(image.meta.labels[k])
<1>1. DOMAIN Nothing.labels = {}
  BY DEF Nothing
<1>2. image.answer # NoImage /\ image.meta = ParseImageInfo(image.answer)
  BY <1>1 DEF MetaOf
<1> DEFINE ctd == Decoded(image.answer.imageSpec)
           top == Decoded(image.answer.top)
<1>3. image.meta.labels = IF DOMAIN ctd.labels # {} THEN ctd.labels ELSE top.labels
  BY <1>2 DEF ParseImageInfo
<1>4. IsShape(image.answer.imageSpec) /\ IsShape(image.answer.top)
  BY <1>2, MetadataAssumption
<1>5. CASE DOMAIN ctd.labels # {}
  <2>1. image.answer.imageSpec # Malformed /\ ctd = image.answer.imageSpec
    BY <1>1, <1>5 DEF Decoded
  <2> QED BY <1>2, <1>3, <1>4, <1>5, <2>1 DEF Source, IsShape
<1>6. CASE DOMAIN ctd.labels = {}
  <2>1. image.answer.top # Malformed /\ top = image.answer.top
    BY <1>1, <1>3, <1>6 DEF Decoded
  <2>2. image.answer.imageSpec # Malformed => DOMAIN image.answer.imageSpec.labels = {}
    BY <1>6 DEF Decoded
  <2>3. image.meta.labels = image.answer.top.labels
    BY <1>3, <1>6, <2>1
  <2> QED BY <1>2, <1>4, <2>1, <2>2, <2>3 DEF Source, IsShape
<1> QED BY <1>5, <1>6

THEOREM ImageInvHolds == ImageSpec => []ImageInv
<1>1. ASSUME ImageInit PROVE ImageInv
  BY <1>1, MetadataAssumption DEF ImageInit, NoStatus, ImageInv
<1>2. ASSUME ImageInv, [ImageNext]_imageVars PROVE ImageInv'
  <2>1. CASE UNCHANGED imageVars
    BY <1>2, <2>1 DEF imageVars, ImageInv, Allowed
  <2>2. ASSUME NEW answer \in Answers, ImageStatus(answer) PROVE ImageInv'
    <3>1. image' = [pc |-> "enriched", answer |-> answer, meta |-> MetaOf(answer),
                    created |-> {}, series |-> {}]
      BY <2>2 DEF ImageStatus, NoStatus, MetaOf
    <3> QED BY <3>1 DEF ImageInv
  <2>3. CASE EmitImageMetrics
    <3> DEFINE labels == image.meta.labels
               created == IF image.answer = NoImage THEN {} ELSE {image.meta.created} \ {NoTime}
               series == {[key |-> k, value |-> TruncateLabelValue(labels[k])] :
                            k \in {key \in DOMAIN labels : Allowed(key)}}
    <3>1. /\ image.pc = "enriched" /\ labelAllowlist' = labelAllowlist
          /\ image' = [image EXCEPT !.pc = "emitted", !.created = created, !.series = series]
      BY <2>3 DEF EmitImageMetrics
    <3>2. image' = [pc |-> "emitted", answer |-> image.answer, meta |-> image.meta,
                    created |-> created, series |-> series]
      <4> HIDE DEF created, series
      <4> QED BY <1>2, <3>1 DEF ImageInv
    <3>3. \A key : Allowed(key)' <=> Allowed(key)
      BY <3>1 DEF Allowed
    <3>4. image'.pc = "emitted" /\ image'.answer = image.answer /\ image'.meta = image.meta
          /\ image'.created = created /\ image'.series = series
      <4> HIDE DEF created, series
      <4> QED BY <3>2
    <3>5. series = {[key |-> k, value |-> TruncateLabelValue(labels[k])] :
                      k \in {key \in DOMAIN labels : Allowed(key)'}}
      BY <3>3
    <3>6. image'.series = {[key |-> k, value |-> TruncateLabelValue(image'.meta.labels[k])] :
                             k \in {key \in DOMAIN image'.meta.labels : Allowed(key)'}}
      BY <3>4, <3>5
    <3>7. image' = [pc |-> image'.pc, answer |-> image'.answer, meta |-> image'.meta,
                    created |-> image'.created, series |-> image'.series]
      <4> HIDE DEF created, series
      <4> QED BY <3>2, <3>4
    <3>8. image'.created = IF image'.answer = NoImage THEN {} ELSE {image'.meta.created} \ {NoTime}
      BY <3>4
    <3>9. image.answer \in Answers /\ image.meta = MetaOf(image.answer)
      BY <1>2, <3>1 DEF ImageInv
    <3> HIDE DEF created, series
    <3> QED BY <3>4, <3>6, <3>7, <3>8, <3>9 DEF ImageInv
  <2>4. CASE NextImage
    BY <2>4, MetadataAssumption DEF NextImage, NoStatus, ImageInv
  <2> QED BY <1>2, <2>1, <2>2, <2>3, <2>4 DEF ImageNext
<1> QED BY <1>1, <1>2, PTL DEF ImageSpec

\* A label value is emitted as it is or as the longest run of whole runes that
\* fits with the marker (truncateLabelValue), whichever shape it came in.
THEOREM LabelValuesAreWhole == ImageSpec => []LabelValuesWhole
<1>1. ASSUME ImageInv PROVE LabelValuesWhole
  <2> SUFFICES ASSUME NEW label \in image.series
               PROVE  LET value == Source[label.key]
                          ends == value.starts \cup {value.bytes}
                          out == label.value
                      IN /\ out.kept \in ends
                         /\ IF out.marked
                            THEN /\ value.bytes > MaxLabelBytes
                                 /\ out.kept + MarkerBytes <= MaxLabelBytes
                                 /\ \A e \in ends : e > out.kept => e + MarkerBytes > MaxLabelBytes
                            ELSE out.kept = value.bytes /\ out.kept <= MaxLabelBytes
    BY DEF LabelValuesWhole
  <2>1. image.pc = "emitted" /\ image.meta = MetaOf(image.answer) /\ image.answer \in Answers
    BY <1>1 DEF ImageInv
  <2>2. PICK k \in DOMAIN image.meta.labels :
          label = [key |-> k, value |-> TruncateLabelValue(image.meta.labels[k])]
    BY <1>1, <2>1 DEF ImageInv
  <2>3. IsText(image.meta.labels[k]) /\ Source = image.meta.labels
    BY <2>1, <2>2, SourceIsMeta
  <2>4. label.key = k /\ label.value = TruncateLabelValue(Source[k])
    BY <2>2, <2>3
  <2> QED BY <2>3, <2>4, TruncateIsWhole
<1> QED BY <1>1, ImageInvHolds, PTL

\* What either shape has is reported, and nothing of an image that the runtime did
\* not confirm (parseImageInfo, and ImageStatus for an answer without image).
THEOREM MetadataIsMerged == ImageSpec => []MetadataMerged
<1>1. ASSUME ImageInv, image.pc = "emitted", image.answer = NoImage
      PROVE  image.created = {} /\ image.series = {}
  <2>1. DOMAIN image.meta.labels = {}
    BY <1>1 DEF ImageInv, MetaOf, Nothing
  <2> QED BY <1>1, <2>1 DEF ImageInv
<1>2. ASSUME ImageInv, image.pc = "emitted", image.answer # NoImage
      PROVE  LET shapes == {image.answer.imageSpec, image.answer.top} \ {Malformed}
             IN /\ image.created = {} <=> \A s \in shapes : s.created = NoTime
                /\ image.created \subseteq {s.created : s \in shapes}
                /\ {label.key : label \in image.series} =
                     IF \A s \in shapes : DOMAIN s.labels = {} THEN {}
                     ELSE {k \in DOMAIN Source : Allowed(k)}
  <2> DEFINE shapes == {image.answer.imageSpec, image.answer.top} \ {Malformed}
             ctd == Decoded(image.answer.imageSpec)
             top == Decoded(image.answer.top)
             m == image.meta
  <2>1. /\ m = ParseImageInfo(image.answer)
        /\ image.created = {m.created} \ {NoTime}
        /\ image.series = {[key |-> k, value |-> TruncateLabelValue(m.labels[k])] :
                             k \in {key \in DOMAIN m.labels : Allowed(key)}}
    BY <1>2 DEF ImageInv, MetaOf
  <2>2. /\ m.created = IF ctd.created # NoTime THEN ctd.created ELSE top.created
        /\ m.labels = IF DOMAIN ctd.labels # {} THEN ctd.labels ELSE top.labels
    BY <2>1 DEF ParseImageInfo
  <2>3. Nothing.created = NoTime /\ DOMAIN Nothing.labels = {}
    BY DEF Nothing
  <2>4. /\ ctd = Nothing \/ (ctd \in shapes /\ ctd = image.answer.imageSpec)
        /\ top = Nothing \/ (top \in shapes /\ top = image.answer.top)
        /\ \A s \in shapes : s = ctd \/ s = top
    BY DEF Decoded
  <2> HIDE DEF shapes, ctd, top
  <2>5. image.created = {} <=> \A s \in shapes : s.created = NoTime
    BY <2>1, <2>2, <2>3, <2>4
  <2>6. image.created \subseteq {s.created : s \in shapes}
    BY <2>1, <2>2, <2>3, <2>4
  <2>7. {label.key : label \in image.series} = {k \in DOMAIN m.labels : Allowed(k)}
    <3>1. \A label \in image.series : label.key \in DOMAIN m.labels /\ Allowed(label.key)
      BY <2>1
    <3>2. ASSUME NEW k \in DOMAIN m.labels, Allowed(k) PROVE \E label \in image.series : label.key = k
      <4>1. [key |-> k, value |-> TruncateLabelValue(m.labels[k])] \in image.series
        BY <2>1, <3>2
      <4> QED BY <4>1
    <3> QED BY <3>1, <3>2
  <2>8. DOMAIN m.labels = {} <=> \A s \in shapes : DOMAIN s.labels = {}
    BY <2>2, <2>3, <2>4
  <2>9. DOMAIN m.labels # {} => Source = m.labels
    BY <1>2, SourceIsMeta DEF ImageInv
  <2> QED BY <2>5, <2>6, <2>7, <2>8, <2>9 DEF shapes
<1>3. ImageInv => MetadataMerged
  BY <1>1, <1>2 DEF MetadataMerged
<1> QED BY <1>3, ImageInvHolds, PTL

-------------------------------------------------------------------------------
(* os-release.                                                                 *)

\* The least and the greatest of a set are what Min and Max choose.
LEMMA MinIs ==
  ASSUME NEW S, S \subseteq Int, NEW m \in S, \A x \in S : m <= x
  PROVE  Min(S) = m
<1>1. Min(S) \in S /\ \A x \in S : Min(S) <= x
  BY DEF Min
<1>2. Min(S) \in Int /\ m \in Int /\ Min(S) <= m /\ m <= Min(S)
  BY <1>1
<1> QED BY <1>2

LEMMA MaxIs ==
  ASSUME NEW S, S \subseteq Int, NEW m \in S, \A x \in S : x <= m
  PROVE  Max(S) = m
<1>1. Max(S) \in S /\ \A x \in S : Max(S) >= x
  BY DEF Max
<1>2. Max(S) \in Int /\ m \in Int /\ Max(S) <= m /\ m <= Max(S)
  BY <1>1
<1> QED BY <1>2

\* What is trimmed is what is before the first and after the last ink.
LEMMA TrimmedIs ==
  ASSUME NEW text \in Seq(Characters), NEW a \in 1..Len(text), NEW b \in 1..Len(text),
         text[a] # Blank, text[b] # Blank,
         \A i \in 1..Len(text) : i < a \/ i > b => text[i] = Blank
  PROVE  TrimSpace(text) = SubSeq(text, a, b)
<1> DEFINE ink == {i \in DOMAIN text : text[i] # Blank}
<1>1. Len(text) \in Nat /\ DOMAIN text = 1..Len(text)
  BY LenProperties
<1>2. a \in ink /\ b \in ink /\ ink \subseteq Int
  BY <1>1
<1>3. \A x \in ink : a <= x /\ x <= b
  BY <1>1
<1>4. Min(ink) = a /\ Max(ink) = b
  <2> HIDE DEF ink
  <2> QED BY <1>2, <1>3, MinIs, MaxIs
<1>5. ink # {}
  BY <1>2
<1> HIDE DEF ink
<1>6. TrimSpace(text) = IF ink = {} THEN << >> ELSE SubSeq(text, Min(ink), Max(ink))
  BY DEF TrimSpace, ink
<1> QED BY <1>4, <1>5, <1>6

\* Where a line is cut.
LEMMA CutAt ==
  ASSUME NEW line \in Seq(Characters), NEW labels, NEW k \in 1..Len(line), line[k] = Equals,
         \A i \in 1..(k - 1) : line[i] # Equals
  PROVE  CutAtEquals(line, labels) =
           Assigned(labels, SubSeq(line, 1, k - 1), Unquote(SubSeq(line, k + 1, Len(line))))
<1> DEFINE I == {i \in 1..Len(line) : line[i] = Equals}
<1>1. Len(line) \in Nat
  BY LenProperties
<1>2. k \in I /\ I \subseteq Int /\ \A i \in I : k <= i
  BY <1>1
<1>3. Min(I) = k /\ I # {} /\ k # 0
  <2>1. k # 0 /\ I # {}
    BY <1>2
  <2> HIDE DEF I
  <2>2. Min(I) = k
    BY <1>2, MinIs
  <2> QED BY <2>1, <2>2
<1>4. SelectInSeq(line, LAMBDA ch : ch = Equals) = k
  BY <1>3 DEF SelectInSeq
<1> QED BY <1>3, <1>4 DEF CutAtEquals

LEMMA NothingToCut ==
  ASSUME NEW line \in Seq(Characters), NEW labels, \A i \in 1..Len(line) : line[i] # Equals
  PROVE  CutAtEquals(line, labels) = labels
<1>1. {i \in 1..Len(line) : line[i] = Equals} = {}
  OBVIOUS
<1>2. SelectInSeq(line, LAMBDA ch : ch = Equals) = 0
  BY <1>1 DEF SelectInSeq
<1> QED BY <1>2 DEF CutAtEquals

\* Two and three texts in a row.
LEMMA RowOfTwo ==
  ASSUME NEW s \in Seq(Characters), NEW t \in Seq(Characters)
  PROVE  /\ s \o t \in Seq(Characters) /\ Len(s) \in Nat /\ Len(t) \in Nat
         /\ Len(s \o t) = Len(s) + Len(t)
         /\ \A i \in 1..Len(s) : (s \o t)[i] = s[i]
         /\ \A i \in 1..Len(t) : (s \o t)[Len(s) + i] = t[i]
<1>1. /\ s \o t \in Seq(Characters) /\ Len(s \o t) = Len(s) + Len(t)
      /\ \A i \in 1..(Len(s) + Len(t)) : (s \o t)[i] = IF i <= Len(s) THEN s[i] ELSE t[i - Len(s)]
  BY ConcatProperties
<1>2. Len(s) \in Nat /\ Len(t) \in Nat
  BY LenProperties
<1>3. ASSUME NEW i \in 1..Len(s) PROVE (s \o t)[i] = s[i]
  BY <1>1, <1>2
<1>4. ASSUME NEW i \in 1..Len(t) PROVE (s \o t)[Len(s) + i] = t[i]
  <2>1. /\ Len(s) + i \in 1..(Len(s) + Len(t)) /\ ~(Len(s) + i <= Len(s))
        /\ (Len(s) + i) - Len(s) = i
    BY <1>2
  <2> QED BY <1>1, <2>1
<1> QED BY <1>1, <1>2, <1>3, <1>4

LEMMA RowOfThree ==
  ASSUME NEW s \in Seq(Characters), NEW t \in Seq(Characters), NEW u \in Seq(Characters)
  PROVE  /\ s \o t \o u \in Seq(Characters)
         /\ Len(s) \in Nat /\ Len(t) \in Nat /\ Len(u) \in Nat
         /\ Len(s \o t \o u) = Len(s) + Len(t) + Len(u)
         /\ \A i \in 1..Len(s) : (s \o t \o u)[i] = s[i]
         /\ \A i \in 1..Len(t) : (s \o t \o u)[Len(s) + i] = t[i]
         /\ \A i \in 1..Len(u) : (s \o t \o u)[Len(s) + Len(t) + i] = u[i]
<1> DEFINE st == s \o t
<1>1. /\ st \in Seq(Characters) /\ Len(s) \in Nat /\ Len(t) \in Nat
      /\ Len(st) = Len(s) + Len(t)
      /\ \A i \in 1..Len(s) : st[i] = s[i]
      /\ \A i \in 1..Len(t) : st[Len(s) + i] = t[i]
  BY RowOfTwo
<1> HIDE DEF st
<1>2. /\ st \o u \in Seq(Characters) /\ Len(u) \in Nat
      /\ Len(st \o u) = Len(st) + Len(u)
      /\ \A i \in 1..Len(st) : (st \o u)[i] = st[i]
      /\ \A i \in 1..Len(u) : (st \o u)[Len(st) + i] = u[i]
  BY <1>1, RowOfTwo
<1>3. ASSUME NEW i \in 1..Len(s) PROVE (st \o u)[i] = s[i]
  <2>1. i \in 1..Len(st)
    BY <1>1
  <2> QED BY <1>1, <1>2, <2>1
<1>4. ASSUME NEW i \in 1..Len(t) PROVE (st \o u)[Len(s) + i] = t[i]
  <2>1. Len(s) + i \in 1..Len(st)
    BY <1>1
  <2> QED BY <1>1, <1>2, <2>1
<1> QED BY <1>1, <1>2, <1>3, <1>4 DEF st

\* Blanks around a text that has none at its ends are trimmed.
LEMMA PadIsTrimmed ==
  ASSUME NEW core \in Seq(Characters), core # << >>, core[1] # Blank, core[Len(core)] # Blank,
         NEW pad \in {<< >>, <<Blank>>}
  PROVE  TrimSpace(pad \o core \o pad) = core
<1> DEFINE text == pad \o core \o pad
           a == Len(pad) + 1
           b == Len(pad) + Len(core)
<1>1. /\ pad \in Seq(Characters) /\ \A i \in 1..Len(pad) : pad[i] = Blank
  <2>1. CASE pad = << >>
    BY <2>1
  <2>2. CASE pad = <<Blank>>
    BY <2>2, OSReleaseAssumption
  <2> QED BY <2>1, <2>2
<1>2. /\ text \in Seq(Characters) /\ Len(pad) \in Nat /\ Len(core) \in Nat
      /\ Len(text) = Len(pad) + Len(core) + Len(pad)
      /\ \A i \in 1..Len(pad) : text[i] = pad[i]
      /\ \A i \in 1..Len(core) : text[Len(pad) + i] = core[i]
      /\ \A i \in 1..Len(pad) : text[Len(pad) + Len(core) + i] = pad[i]
  BY <1>1, RowOfThree
<1>3. Len(core) >= 1
  BY <1>2, EmptySeq
<1> HIDE DEF text
<1>4. a \in 1..Len(text) /\ b \in 1..Len(text) /\ a <= b
  BY <1>2, <1>3
<1>5. text[a] # Blank /\ text[b] # Blank
  <2>1. 1 \in 1..Len(core) /\ Len(core) \in 1..Len(core)
    BY <1>2, <1>3
  <2> QED BY <1>2, <2>1
<1>6. ASSUME NEW i \in 1..Len(text), i < a \/ i > b PROVE text[i] = Blank
  <2>1. CASE i < a
    <3>1. i \in 1..Len(pad)
      BY <1>2, <1>6, <2>1
    <3> QED BY <1>1, <1>2, <3>1
  <2>2. CASE i > b
    <3>1. /\ i - (Len(pad) + Len(core)) \in 1..Len(pad)
          /\ i = Len(pad) + Len(core) + (i - (Len(pad) + Len(core)))
      BY <1>2, <1>6, <2>2
    <3> QED BY <1>1, <1>2, <3>1
  <2> QED BY <1>6, <2>1, <2>2
<1>7. TrimSpace(text) = SubSeq(text, a, b)
  BY <1>2, <1>4, <1>5, <1>6, TrimmedIs
<1>8. SubSeq(text, a, b) = core
  <2>1. \A i \in a..b : text[i] \in Characters
    <3>1. text \in [1..Len(text) -> Characters]
      BY <1>2, LenProperties
    <3> QED BY <1>2, <1>4, <3>1
  <2>2. /\ SubSeq(text, a, b) \in Seq(Characters)
        /\ Len(SubSeq(text, a, b)) = IF a <= b THEN b - a + 1 ELSE 0
        /\ \A i \in 1..(b - a + 1) : SubSeq(text, a, b)[i] = text[a + i - 1]
    BY <1>2, <2>1, SubSeqProperties
  <2>3. b - a + 1 = Len(core) /\ \A i \in 1..Len(core) : a + i - 1 = Len(pad) + i
    BY <1>2
  <2>4. Len(SubSeq(text, a, b)) = Len(core)
    BY <1>4, <2>2, <2>3
  <2>5. \A i \in 1..Len(core) : SubSeq(text, a, b)[i] = core[i]
    BY <1>2, <2>2, <2>3
  <2> QED BY <2>2, <2>4, <2>5, SeqEqual
<1> QED BY <1>7, <1>8 DEF text

\* The marks around a value are dropped, and a value that needs none has none.
LEMMA MarksAreDropped ==
  ASSUME NEW value \in Seq(Characters), NEW quote \in Quotes \cup {Unquoted},
         quote = Unquoted => ~NeedsQuotes(value)
  PROVE  LET mark == IF quote = Unquoted THEN << >> ELSE <<quote>>
             rest == mark \o value \o mark
         IN  /\ rest \in Seq(Characters) /\ Unquote(rest) = value
             /\ rest # << >> => rest[Len(rest)] # Blank
<1>1. CASE quote = Unquoted
  <2>1. << >> \o value \o << >> = value
    BY ConcatEmptySeq
  <2>2. value # << >> => value[Len(value)] # Blank
    BY <1>1 DEF NeedsQuotes, Last
  <2>3. Unquote(value) = value
    <3>1. Len(value) \in Nat /\ (Len(value) >= 2 => value # << >> /\ Len(value) > 1)
      BY LenProperties, EmptySeq
    <3> QED BY <1>1, <3>1 DEF Unquote, NeedsQuotes
  <2> QED BY <1>1, <2>1, <2>2, <2>3
<1>2. CASE quote \in Quotes
  <2> DEFINE mark == <<quote>>
             rest == mark \o value \o mark
             n == Len(value)
  <2>1. /\ quote # Unquoted /\ quote \in Characters /\ quote # Blank
        /\ mark \in Seq(Characters) /\ Len(mark) = 1 /\ mark[1] = quote
    BY <1>2, OSReleaseAssumption
  <2>2. /\ rest \in Seq(Characters) /\ n \in Nat /\ Len(rest) = n + 2
        /\ rest[1] = quote /\ rest[n + 2] = quote
        /\ \A i \in 1..n : rest[i + 1] = value[i]
    <3> HIDE DEF mark
    <3>1. /\ rest \in Seq(Characters) /\ n \in Nat
          /\ Len(rest) = 1 + n + 1
          /\ \A i \in 1..1 : rest[i] = mark[i]
          /\ \A i \in 1..n : rest[1 + i] = value[i]
          /\ \A i \in 1..1 : rest[1 + n + i] = mark[i]
      BY <2>1, RowOfThree
    <3> HIDE DEF rest, n
    <3>2. 1 \in 1..1 /\ 1 + n + 1 = n + 2 /\ \A i \in 1..n : i + 1 = 1 + i
      BY <3>1
    <3> QED BY <2>1, <3>1, <3>2
  <2> HIDE DEF rest
  <2>3. Unquote(rest) = SubSeq(rest, 2, n + 1)
    <3>1. Len(rest) >= 2 /\ Head(rest) = quote /\ Last(rest) = quote /\ Len(rest) - 1 = n + 1
      BY <2>2, EmptySeq DEF Last
    <3> QED BY <1>2, <3>1 DEF Unquote
  <2>4. SubSeq(rest, 2, n + 1) = value
    <3>1. \A i \in 2..(n + 1) : rest[i] \in Characters
      <4>1. rest \in [1..(n + 2) -> Characters]
        BY <2>2, LenProperties
      <4> QED BY <2>2, <4>1
    <3>2. /\ SubSeq(rest, 2, n + 1) \in Seq(Characters)
          /\ Len(SubSeq(rest, 2, n + 1)) = IF 2 <= n + 1 THEN n + 1 - 2 + 1 ELSE 0
          /\ \A i \in 1..(n + 1 - 2 + 1) : SubSeq(rest, 2, n + 1)[i] = rest[2 + i - 1]
      BY <2>2, <3>1, SubSeqProperties
    <3>3. Len(SubSeq(rest, 2, n + 1)) = n
      BY <2>2, <3>2
    <3>4. \A i \in 1..n : SubSeq(rest, 2, n + 1)[i] = value[i]
      <4>1. n + 1 - 2 + 1 = n /\ \A i \in 1..n : 2 + i - 1 = i + 1
        BY <2>2
      <4> QED BY <2>2, <3>2, <4>1
    <3> QED BY <3>2, <3>3, <3>4, SeqEqual
  <2>5. rest[Len(rest)] # Blank
    BY <2>1, <2>2
  <2> QED BY <2>1, <2>2, <2>3, <2>4, <2>5 DEF rest
<1> QED BY <1>1, <1>2

\* An assignment is parsed to the key and the value that its writer meant.
LEMMA AssignmentIsParsed ==
  ASSUME NEW key \in Keys, NEW value \in Values, NEW quote \in Quotes \cup {Unquoted},
         NEW padded \in BOOLEAN, quote = Unquoted => ~NeedsQuotes(value)
  PROVE  Scanned(Rendered(key, value, quote, padded)) = Assigned(osFile.result, key, value)
<1> DEFINE pad == IF padded THEN <<Blank>> ELSE << >>
           mark == IF quote = Unquoted THEN << >> ELSE <<quote>>
           rest == mark \o value \o mark
           core == key \o <<Equals>> \o rest
           n == Len(key)
<1>1. /\ key \in Seq(Characters) /\ key # << >> /\ Head(key) # Hash
      /\ \A i \in 1..n : key[i] # Equals /\ key[i] # Blank
  <2>1. key \in Seq(Characters) /\ key # << >> /\ Head(key) # Hash
        /\ Equals \notin Range(key) /\ Blank \notin Range(key)
    BY OSReleaseAssumption
  <2>2. DOMAIN key = 1..n
    BY <2>1, LenProperties
  <2> QED BY <2>1, <2>2 DEF Range
<1>2. /\ rest \in Seq(Characters) /\ Unquote(rest) = value
      /\ rest # << >> => rest[Len(rest)] # Blank
  BY MarksAreDropped, OSReleaseAssumption
<1> HIDE DEF mark, rest
<1>3. /\ core \in Seq(Characters) /\ n \in Nat /\ Len(rest) \in Nat
      /\ Len(core) = n + 1 + Len(rest)
      /\ \A i \in 1..n : core[i] = key[i]
      /\ core[n + 1] = Equals
      /\ \A i \in 1..Len(rest) : core[n + 1 + i] = rest[i]
  <2>1. <<Equals>> \in Seq(Characters) /\ Len(<<Equals>>) = 1 /\ <<Equals>>[1] = Equals
    BY OSReleaseAssumption
  <2> DEFINE eq == <<Equals>>
  <2> HIDE DEF eq
  <2>2. /\ key \o eq \o rest \in Seq(Characters) /\ n \in Nat /\ Len(rest) \in Nat
        /\ Len(key \o eq \o rest) = n + Len(eq) + Len(rest)
        /\ \A i \in 1..n : (key \o eq \o rest)[i] = key[i]
        /\ \A i \in 1..Len(eq) : (key \o eq \o rest)[n + i] = eq[i]
        /\ \A i \in 1..Len(rest) : (key \o eq \o rest)[n + Len(eq) + i] = rest[i]
    BY <1>1, <1>2, <2>1, RowOfThree DEF eq
  <2>3. Len(eq) = 1 /\ eq[1] = Equals /\ 1 \in 1..1
    BY <2>1 DEF eq
  <2> QED BY <2>2, <2>3 DEF eq
<1> HIDE DEF core
<1>4. /\ n >= 1 /\ core[1] = key[1] /\ Head(key) = key[1] /\ 1 \in 1..n
  BY <1>1, <1>3, EmptySeq
<1>5. core # << >> /\ core[1] # Blank /\ Head(core) # Hash
  BY <1>1, <1>3, <1>4, EmptySeq
<1>6. core[Len(core)] # Blank
  <2>1. CASE rest = << >>
    BY <1>3, <2>1, OSReleaseAssumption
  <2>2. CASE rest # << >>
    <3>1. Len(rest) \in 1..Len(rest)
      BY <1>2, <1>3, <2>2, EmptySeq
    <3> QED BY <1>2, <1>3, <2>2, <3>1
  <2> QED BY <2>1, <2>2
<1>7. TrimSpace(Rendered(key, value, quote, padded)) = core
  <2>1. Rendered(key, value, quote, padded) = pad \o core \o pad
    BY DEF Rendered, core, rest, mark
  <2>2. pad \in {<< >>, <<Blank>>}
    OBVIOUS
  <2> HIDE DEF pad
  <2> QED BY <1>3, <1>5, <1>6, <2>1, <2>2, PadIsTrimmed
<1>8. Scanned(Rendered(key, value, quote, padded)) = CutAtEquals(core, osFile.result)
  BY <1>5, <1>7 DEF Scanned
<1>9. CutAtEquals(core, osFile.result) =
        Assigned(osFile.result, SubSeq(core, 1, n), Unquote(SubSeq(core, n + 2, Len(core))))
  <2> DEFINE k == n + 1
  <2>1. k \in 1..Len(core) /\ k - 1 = n /\ k + 1 = n + 2 /\ core[k] = Equals
    BY <1>3
  <2>2. \A i \in 1..(k - 1) : core[i] # Equals
    BY <1>1, <1>3, <2>1
  <2> HIDE DEF k
  <2>3. CutAtEquals(core, osFile.result) =
          Assigned(osFile.result, SubSeq(core, 1, k - 1), Unquote(SubSeq(core, k + 1, Len(core))))
    BY <1>3, <2>1, <2>2, CutAt
  <2> QED BY <2>1, <2>3
<1>10. core \in [1..Len(core) -> Characters] /\ Len(core) \in Nat
  BY <1>3, LenProperties
<1>11. SubSeq(core, 1, n) = key
  <2>1. /\ SubSeq(core, 1, n) \in Seq(Characters)
        /\ Len(SubSeq(core, 1, n)) = IF 1 <= n THEN n - 1 + 1 ELSE 0
        /\ \A i \in 1..(n - 1 + 1) : SubSeq(core, 1, n)[i] = core[1 + i - 1]
    <3>1. \A i \in 1..n : core[i] \in Characters
      BY <1>3, <1>10
    <3> QED BY <1>3, <3>1, SubSeqProperties
  <2>2. n - 1 + 1 = n /\ \A i \in 1..n : 1 + i - 1 = i
    BY <1>3
  <2> QED BY <1>1, <1>3, <1>4, <2>1, <2>2, SeqEqual
<1>12. SubSeq(core, n + 2, Len(core)) = rest
  <2> DEFINE m == Len(rest)
  <2>1. /\ SubSeq(core, n + 2, Len(core)) \in Seq(Characters)
        /\ Len(SubSeq(core, n + 2, Len(core))) =
             IF n + 2 <= Len(core) THEN Len(core) - (n + 2) + 1 ELSE 0
        /\ \A i \in 1..(Len(core) - (n + 2) + 1) :
             SubSeq(core, n + 2, Len(core))[i] = core[n + 2 + i - 1]
    <3>1. \A i \in (n + 2)..Len(core) : core[i] \in Characters
      BY <1>3, <1>10
    <3> QED BY <1>3, <1>10, <3>1, SubSeqProperties
  <2>2. Len(core) - (n + 2) + 1 = m /\ \A i \in 1..m : n + 2 + i - 1 = n + 1 + i
    BY <1>3
  <2>3. Len(SubSeq(core, n + 2, Len(core))) = m
    BY <1>3, <2>1, <2>2
  <2>4. \A i \in 1..m : SubSeq(core, n + 2, Len(core))[i] = rest[i]
    BY <1>3, <2>1, <2>2
  <2> QED BY <1>2, <2>1, <2>3, <2>4, SeqEqual
<1> QED BY <1>2, <1>8, <1>9, <1>11, <1>12

\* A comment stays one, whatever is trimmed of it.
LEMMA CommentIsSkipped ==
  ASSUME NEW text \in Seq(Characters), NEW a \in 1..Len(text), text[a] = Hash,
         \A i \in 1..(a - 1) : text[i] = Blank
  PROVE  Scanned(text) = osFile.result
<1> DEFINE ink == {i \in DOMAIN text : text[i] # Blank}
           b == Max(ink)
<1>1. Len(text) \in Nat /\ DOMAIN text = 1..Len(text) /\ text \in [1..Len(text) -> Characters]
  BY LenProperties
<1>2. ink \subseteq 0..Len(text) /\ a \in ink
  BY <1>1, OSReleaseAssumption
<1>3. b \in ink /\ \A x \in ink : x <= b
  <2> HIDE DEF ink
  <2> QED BY <1>1, <1>2, GreatestExists
<1>4. b \in 1..Len(text) /\ a <= b /\ text[b] # Blank /\ text[a] # Blank
  <2> HIDE DEF b
  <2> QED BY <1>1, <1>2, <1>3
<1>5. ASSUME NEW i \in 1..Len(text), i < a \/ i > b PROVE text[i] = Blank
  <2> HIDE DEF b
  <2>1. CASE i < a
    BY <1>1, <2>1
  <2>2. CASE i > b
    <3>1. i \notin ink
      <4> HIDE DEF ink
      <4>1. b \in Int
        BY <1>2, <1>3
      <4> QED BY <1>3, <2>2, <4>1
    <3> QED BY <1>1, <3>1
  <2> QED BY <1>5, <2>1, <2>2
<1> HIDE DEF b, ink
<1>6. TrimSpace(text) = SubSeq(text, a, b)
  BY <1>4, <1>5, TrimmedIs
<1>7. SubSeq(text, a, b) # << >> /\ Head(SubSeq(text, a, b)) = Hash
  <2>1. \A i \in a..b : text[i] \in Characters
    BY <1>1, <1>4
  <2>2. /\ SubSeq(text, a, b) \in Seq(Characters)
        /\ Len(SubSeq(text, a, b)) = IF a <= b THEN b - a + 1 ELSE 0
        /\ \A i \in 1..(b - a + 1) : SubSeq(text, a, b)[i] = text[a + i - 1]
    BY <1>1, <1>4, <2>1, SubSeqProperties
  <2>3. 1 \in 1..(b - a + 1) /\ a + 1 - 1 = a /\ b - a + 1 >= 1
    BY <1>1, <1>4
  <2>4. Len(SubSeq(text, a, b)) >= 1 /\ SubSeq(text, a, b)[1] = Hash
    BY <1>4, <2>2, <2>3
  <2> QED BY <2>2, <2>4, EmptySeq
<1> QED BY <1>6, <1>7 DEF Scanned

\* Lines that assign nothing change nothing.
LEMMA NoiseIsSkipped ==
  ASSUME NEW key \in Keys, NEW value \in Values, NEW text \in Noise(key, value)
  PROVE  Scanned(text) = osFile.result
<1> DEFINE r == Rendered(key, value, Unquoted, FALSE)
<1>1. /\ key \in Seq(Characters) /\ key # << >> /\ Head(key) # Hash
      /\ \A i \in 1..Len(key) : key[i] # Equals /\ key[i] # Blank
  <2>1. key \in Seq(Characters) /\ key # << >> /\ Head(key) # Hash
        /\ Equals \notin Range(key) /\ Blank \notin Range(key)
    BY OSReleaseAssumption
  <2>2. DOMAIN key = 1..Len(key)
    BY <2>1, LenProperties
  <2> QED BY <2>1, <2>2 DEF Range
<1>2. r \in Seq(Characters)
  <2> DEFINE eq == <<Equals>>
             rest == << >> \o value \o << >>
  <2>1. eq \in Seq(Characters) /\ << >> \in Seq(Characters) /\ value \in Seq(Characters)
    BY OSReleaseAssumption
  <2> HIDE DEF eq
  <2>2. rest \in Seq(Characters)
    BY <2>1, RowOfThree
  <2> HIDE DEF rest
  <2>3. key \o eq \o rest \in Seq(Characters)
    BY <1>1, <2>1, <2>2, RowOfThree
  <2>4. << >> \o (key \o eq \o rest) \o << >> \in Seq(Characters)
    BY <2>1, <2>3, RowOfThree
  <2> QED BY <2>4 DEF Rendered, eq, rest
<1> HIDE DEF r
<1>3. CASE text = << >> \/ text = <<Blank>>
  <2>1. {i \in DOMAIN text : text[i] # Blank} = {}
    BY <1>3
  <2>2. TrimSpace(text) = << >>
    BY <2>1 DEF TrimSpace
  <2> QED BY <2>2 DEF Scanned
<1>4. CASE text = key
  <2>1. Len(key) \in 1..Len(key) /\ 1 \in 1..Len(key) /\ Head(key) = key[1]
    BY <1>1, EmptySeq, LenProperties
  <2>2. << >> \o key \o << >> = key
    BY <1>1, ConcatEmptySeq
  <2>3. TrimSpace(key) = key
    BY <1>1, <2>1, <2>2, PadIsTrimmed
  <2>4. CutAtEquals(key, osFile.result) = osFile.result
    BY <1>1, NothingToCut
  <2> QED BY <1>1, <1>4, <2>3, <2>4 DEF Scanned
<1>5. CASE text = <<Hash>> \o r
  <2> DEFINE h == <<Hash>>
  <2>1. h \in Seq(Characters) /\ Len(h) = 1 /\ h[1] = Hash
    BY OSReleaseAssumption
  <2> HIDE DEF h
  <2>2. /\ h \o r \in Seq(Characters) /\ Len(r) \in Nat /\ Len(h \o r) = Len(h) + Len(r)
        /\ \A i \in 1..Len(h) : (h \o r)[i] = h[i]
    BY <1>2, <2>1, RowOfTwo
  <2> DEFINE t == h \o r
  <2>3. t \in Seq(Characters) /\ 1 \in 1..Len(t) /\ t[1] = Hash
    BY <2>1, <2>2
  <2> HIDE DEF t
  <2>4. Scanned(t) = osFile.result
    BY <2>3, CommentIsSkipped
  <2> QED BY <1>5, <2>4 DEF t, h
<1>6. CASE text = <<Blank, Hash>> \o r
  <2> DEFINE h == <<Blank, Hash>>
  <2>1. h \in Seq(Characters) /\ Len(h) = 2 /\ h[1] = Blank /\ h[2] = Hash
    BY OSReleaseAssumption
  <2> HIDE DEF h
  <2>2. /\ h \o r \in Seq(Characters) /\ Len(r) \in Nat /\ Len(h \o r) = Len(h) + Len(r)
        /\ \A i \in 1..Len(h) : (h \o r)[i] = h[i]
    BY <1>2, <2>1, RowOfTwo
  <2> DEFINE t == h \o r
  <2>3. t \in Seq(Characters) /\ 2 \in 1..Len(t) /\ t[1] = Blank /\ t[2] = Hash
    BY <2>1, <2>2
  <2> HIDE DEF t
  <2>4. \A i \in 1..(2 - 1) : t[i] = Blank
    BY <2>3
  <2>5. Scanned(t) = osFile.result
    BY <2>3, <2>4, CommentIsSkipped
  <2> QED BY <1>6, <2>5 DEF t, h
<1> QED BY <1>3, <1>4, <1>5, <1>6 DEF Noise, r

\* Every file that is rendered from assignments is parsed to them: quotation marks,
\* blanks, comments and lines without "=" add nothing and hide nothing
\* (ParseOSRelease).
THEOREM FilesAreParsed == OSSpec => []WrittenIsParsed
<1> DEFINE OSInv ==
      /\ osFile = [pc |-> osFile.pc, result |-> osFile.result]
      /\ osFile.pc \in {"scan", "done", "failed"}
      /\ WrittenIsParsed
<1>1. ASSUME OSInit PROVE OSInv
  BY <1>1 DEF OSInit, WrittenIsParsed
<1>2. ASSUME OSInv, [OSNext]_osVars PROVE OSInv'
  <2>1. CASE UNCHANGED osVars
    BY <1>2, <2>1 DEF osVars, WrittenIsParsed
  <2>2. ASSUME NEW key \in Keys, NEW value \in Values, NEW quote \in Quotes \cup {Unquoted},
               NEW padded \in BOOLEAN, ScanAssignment(key, value, quote, padded)
        PROVE  OSInv'
    <3>1. /\ osFile.pc = "scan" /\ osFile.result = written
          /\ quote = Unquoted => ~NeedsQuotes(value)
      BY <1>2, <2>2 DEF ScanAssignment, WrittenIsParsed
    <3>2. Scanned(Rendered(key, value, quote, padded)) = Assigned(osFile.result, key, value)
      BY <3>1, AssignmentIsParsed
    <3>3. /\ osFile' = [osFile EXCEPT !.result = Assigned(osFile.result, key, value)]
          /\ written' = Assigned(written, key, value)
      BY <2>2, <3>2 DEF ScanAssignment
    <3>4. osFile' = [pc |-> "scan", result |-> Assigned(osFile.result, key, value)]
      BY <1>2, <3>1, <3>3
    <3> QED BY <3>1, <3>3, <3>4 DEF WrittenIsParsed
  <2>3. ASSUME NEW key \in Keys, NEW value \in Values, NEW text \in Noise(key, value), ScanNoise(text)
        PROVE  OSInv'
    <3>1. Scanned(text) = osFile.result
      BY NoiseIsSkipped
    <3>2. osFile' = [osFile EXCEPT !.result = osFile.result] /\ written' = written
      BY <2>3, <3>1 DEF ScanNoise
    <3>3. osFile' = osFile
      BY <1>2, <3>2
    <3> QED BY <1>2, <3>2, <3>3 DEF WrittenIsParsed
  <2>4. CASE ScanEnds
    <3>1. osFile' = [pc |-> "done", result |-> osFile.result] /\ written' = written /\ osFile.pc = "scan"
      BY <1>2, <2>4 DEF ScanEnds
    <3> QED BY <1>2, <3>1 DEF WrittenIsParsed
  <2>5. CASE ScanFails
    BY <2>5 DEF ScanFails, WrittenIsParsed
  <2>6. CASE NextFile
    BY <2>6 DEF NextFile, WrittenIsParsed
  <2> QED BY <1>2, <2>1, <2>2, <2>3, <2>4, <2>5, <2>6 DEF OSNext
<1>3. OSInv => WrittenIsParsed
  OBVIOUS
<1> QED BY <1>1, <1>2, <1>3, PTL DEF OSSpec

===============================================================================
