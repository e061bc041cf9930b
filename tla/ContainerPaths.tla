---------------------------- MODULE ContainerPaths ----------------------------
(***************************************************************************)
(* Where the cluster exporter looks for containers, pull secrets and        *)
(* service accounts in an object (setup.go, the tables; reconciler.go,      *)
(* containerSpecs to serviceAccountName).                                   *)
(*                                                                         *)
(* An object is a partial function from positions to nodes.  A position is  *)
(* a sequence of field names and list indices, and a node is "map", "list", *)
(* "number", "null" or a string of Texts.  The position of a container is   *)
(* its JSONPath, which is not formatted here.                               *)
(***************************************************************************)
EXTENDS Sequences, Naturals

CONSTANTS
  Texts,    \* the non-empty strings an object can hold
  Indices   \* bound: the indices a list can have, as segments of a position;
            \* the segment of a field is none of them

Segments(path) == {path[i] : i \in DOMAIN path}

-------------------------------------------------------------------------------
(* The tables.                                                              *)

\* The container lists of a Pod spec at this path.
PodSpec(at) == {at \o <<"initContainers">>, at \o <<"containers">>}

\* The container fields of the templates of an Argo workflow at this path.
Templates(at) ==
  {at \o <<"templates", "*", field>> :
     field \in {"container", "initContainers", "sidecars", "script"}}

\* A resource with these container paths whose credentials are in a Pod spec at
\* this path.
Resource(containers, at) ==
  [containers |-> containers,
   pullSecrets |-> {at \o <<"imagePullSecrets">>},
   serviceAccounts |-> {at \o <<"serviceAccountName">>}]

PodTemplate == Resource(PodSpec(<<"spec", "template", "spec">>), <<"spec", "template", "spec">>)

Workflow == Resource(Templates(<<"spec">>), <<"spec">>)

\* The standard resources, which are always watched.
BuiltinResources ==
  LET job == <<"spec", "jobTemplate", "spec", "template", "spec">>
  IN [Pod |-> Resource(PodSpec(<<"spec">>) \cup {<<"spec", "ephemeralContainers">>}, <<"spec">>),
      Deployment |-> PodTemplate, StatefulSet |-> PodTemplate, DaemonSet |-> PodTemplate,
      Job |-> PodTemplate,
      CronJob |-> Resource(PodSpec(job), job)]

\* The resources that are watched if they are discovered.
KnownAdditionalResources ==
  LET cron == <<"spec", "workflowSpec">>
  IN [Task |-> [Resource({<<"spec", "steps">>, <<"spec", "sidecars">>}, <<"spec">>)
                  EXCEPT !.pullSecrets = {}],
      TaskRun |->
        [Resource({<<"spec", "taskSpec", "steps">>, <<"spec", "taskSpec", "sidecars">>}, <<"spec">>)
           EXCEPT !.pullSecrets = {<<"spec", "podTemplate", "imagePullSecrets">>}],
      Service |-> PodTemplate,
      Revision |-> Resource(PodSpec(<<"spec">>), <<"spec">>),
      Workflow |-> Workflow, WorkflowTemplate |-> Workflow, ClusterWorkflowTemplate |-> Workflow,
      CronWorkflow |-> Resource(Templates(cron), cron)]

ResourceOf(kind) ==
  IF kind \in DOMAIN BuiltinResources THEN BuiltinResources[kind]
  ELSE KnownAdditionalResources[kind]

ResourceKinds == DOMAIN BuiltinResources \cup DOMAIN KnownAdditionalResources

FieldNames ==
  {"image", "name"} \cup
  UNION {Segments(path) : path \in UNION {ResourceOf(kind).containers : kind \in ResourceKinds}}

ASSUME PathsAssumption ==
  /\ Indices \subseteq STRING
  /\ Indices \cap FieldNames = {}

\* An object is a tree: what is at a position is in a list or a map, which is at
\* the position that is left without the last segment.
IsTree(doc) ==
  /\ DOMAIN doc \subseteq Seq(STRING)
  /\ \A pos \in DOMAIN doc \ {<< >>} :
       LET parent == SubSeq(pos, 1, Len(pos) - 1)
       IN /\ parent \in DOMAIN doc
          /\ doc[parent] = IF pos[Len(pos)] \in Indices THEN "list" ELSE "map"

-------------------------------------------------------------------------------
(* Reading an object.                                                       *)

IsMap(doc, pos) == pos \in DOMAIN doc /\ doc[pos] = "map"

IsText(doc, pos) == pos \in DOMAIN doc /\ doc[pos] \in Texts

\* No elements unless all are maps.
ItemsIfMaps(doc, pos) ==
  LET items == {pos \o <<i>> : i \in Indices} \cap DOMAIN doc
  IN IF \A i \in items : doc[i] = "map" THEN items ELSE {}

\* The elements of the list at a position: none unless there is a list.
Items(doc, pos) ==
  IF pos \in DOMAIN doc /\ doc[pos] = "list"
  THEN {pos \o <<i>> : i \in Indices} \cap DOMAIN doc
  ELSE {}

\* The containers among these positions: maps with an image that is a string.
SpecsAt(doc, positions) ==
  {[path |-> pos, image |-> doc[pos \o <<"image">>]] :
     pos \in {p \in positions : IsMap(doc, p) /\ IsText(doc, p \o <<"image">>)}}

\* Without a wildcard the path leads to a list of containers.
ListedSpecs(doc, path) == SpecsAt(doc, Items(doc, path))

\* With a wildcard it leads to a list, and from each of its elements that is a
\* map to a container or a list of containers.
WildcardSpecs(doc, prefix, suffix) ==
  LET found == {item \o suffix : item \in {i \in Items(doc, prefix) : IsMap(doc, i)}}
  IN SpecsAt(doc, found \cup UNION {Items(doc, pos) : pos \in found})

\* specsForPath: only the first wildcard is expanded.
SpecsForPath(doc, path) ==
  IF "*" \notin Segments(path) THEN ListedSpecs(doc, path)
  ELSE LET first == CHOOSE i \in DOMAIN path :
                      path[i] = "*" /\ \A j \in 1..(i - 1) : path[j] # "*"
       IN WildcardSpecs(doc, SubSeq(path, 1, first - 1), SubSeq(path, first + 1, Len(path)))

ContainerSpecs(doc, paths) == UNION {SpecsForPath(doc, path) : path \in paths}

\* The names in the lists of pull secrets.
ImagePullSecrets(doc, paths) ==
  LET named == {item \o <<"name">> : item \in {i \in UNION {Items(doc, p) : p \in paths} :
                                                IsMap(doc, i)}}
  IN {doc[pos] : pos \in {p \in named : IsText(doc, p)}}

\* The service account, or none; no table has more than one path.
ServiceAccountNames(doc, paths) == {doc[pos] : pos \in {p \in paths : IsText(doc, p)}}

-------------------------------------------------------------------------------
(* The same, as docs/cluster-exporter.md has it in its tables: a position    *)
(* fits a path if it has the same fields and an index for each "*".         *)

Fits(pos, path) ==
  /\ Len(pos) = Len(path)
  /\ \A i \in DOMAIN path :
       IF path[i] = "*" THEN pos[i] \in Indices ELSE pos[i] = path[i]

\* The containers at or in the lists at the documented paths.  A path that ends
\* in a list has an index below it; one of a template's fields need not.
DocumentedSpecs(doc, paths) ==
  SpecsAt(doc,
    {pos \in DOMAIN doc :
       \E path \in paths :
         \/ Fits(pos, path \o <<"*">>)
         \/ "*" \in Segments(path) /\ Fits(pos, path)})

DocumentedPullSecrets(doc, paths) ==
  {doc[pos] : pos \in {p \in DOMAIN doc : \E path \in paths :
                         Fits(p, path \o <<"*", "name">>) /\ IsText(doc, p)}}

===============================================================================
