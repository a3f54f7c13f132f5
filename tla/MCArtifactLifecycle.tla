------------------------ MODULE MCArtifactLifecycle ------------------------
(***************************************************************************)
(* Small instances of ArtifactLifecycle for TLC: one dump that stays, or   *)
(* two of different sizes, and the events each run allows.                 *)
(***************************************************************************)
EXTENDS ArtifactLifecycle, TLC

OneDump == {"old"}

TwoDumps == {"old", "new"}

\* The old dump has a page more, so that what is left of it shows.
MCPages == ("old" :> 2) @@ ("new" :> 1)

\* A hole of zeros, which reads as document 0 without a title, over the first page or
\* over all there was; and a document whose number comes from the middle of a text.
Blank == [dump |-> "none", rank |-> "none"]

MCGarbled ==
  {0 :> Blank, (1 :> [dump |-> "old", rank |-> "none"]) @@ (7 :> Blank)}

PagesOfOne == [d \in OneDump |-> 2]

None == [e \in Events |-> 0]

\* Everything that can go wrong with the server, and the dump changes.
Troubles == ("crash" :> 2) @@ ("disk_full" :> 1) @@ ("no_open" :> 1) @@ ("recompute" :> 1)
              @@ ("bad_dump" :> 1) @@ ("clear" :> 1) @@ ("replace" :> 1) @@ None

\* One crash while the first cache is saved.
OneCrash == ("crash" :> 1) @@ None
=============================================================================
