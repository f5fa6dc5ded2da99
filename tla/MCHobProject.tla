---------------------------- MODULE MCHobProject -----------------------------
(***************************************************************************)
(* A small file system for HobProject: main.hob, a.hob and lib/b.hob and,  *)
(* if Link, a link lib/a.hob to a.hob.  Its paths are looked up, as        *)
(* realpath and chdir do, from the directories "." and "lib".              *)
(***************************************************************************)
EXTENDS HobProject

CONSTANTS main, a, b, Link

Entries ==
    [d \in {".", "lib"} |->
        IF d = "." THEN "main.hob" :> main @@ "a.hob" :> a @@ "lib/b.hob" :> b
        ELSE "../main.hob" :> main @@ "../a.hob" :> a @@ "b.hob" :> b
             @@ IF Link THEN "a.hob" :> a ELSE <<>>]

FindsPath ==
    [from \in Dirs \X Paths |->
        IF from[2] \in DOMAIN Entries[from[1]] THEN Entries[from[1]][from[2]] ELSE NoFile]

EntersDir ==
    [from \in Dirs \X Paths |->
        CASE from[2] = "lib/b.hob" -> "lib"
          [] from[2] \in {"../main.hob", "../a.hob"} -> "."
          [] OTHER -> from[1]]

Symmetry == Permutations(Names)
=============================================================================
