---------------------------- MODULE MCNodeExporter ----------------------------
(* NodeExporter on a node with two PIDs and four containers: an ordinary one, *)
(* a distroless one, one whose os-release cannot be read, and a pause          *)
(* container.  The runtime names images by id, or by repository and digest.    *)
EXTENDS NodeExporter, TLC

CONSTANTS app, bare, locked, pause, img1, img2, repoA, repoB

Four == {app, bare, locked, pause}
PauseOnly == {pause}
BareOnly == {bare}
LockedOnly == {locked}
TwoImages == {img1, img2}
IdsAndRepos == {img1, img2, repoA, repoB}

\* Both repositories hold img1.
Resolution == (img1 :> img1) @@ (img2 :> img2) @@ (repoA :> img1) @@ (repoB :> img1)

\* image_ref as containerd reports it, and as other runtimes may.
RefIsId == (app :> img1) @@ (bare :> img2) @@ (locked :> img1) @@ (pause :> img2)
RefIsRepo == (app :> repoA) @@ (bare :> img2) @@ (locked :> repoB) @@ (pause :> img2)
ImageIsRepo == (app :> repoA) @@ (bare :> img2) @@ (locked :> repoB) @@ (pause :> NoId)

===============================================================================
