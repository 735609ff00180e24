---------------------------- MODULE BlobLifetime ----------------------------
(***************************************************************************)
(* The abstract lifetime of a blob, CONTEXT.md's "Blob Lifetime": from     *)
(* staging through the content of one object version and merge-ancestor    *)
(* retention to deletion.  A claimed blob is never deleted and never       *)
(* staged again: it leaves its object version first.  What is gone may     *)
(* only come back as a staged blob, when reconciliation finds its file.    *)
(***************************************************************************)
CONSTANT Blobs
VARIABLE stage

Stages == {"unborn", "staged", "claimed", "retained", "purgeable", "gone"}

Moves == {<<"unborn", "staged">>,    \* uploaded
          <<"staged", "claimed">>,   \* an object version takes it
          <<"claimed", "retained">>, \* superseded, or its object deleted
          <<"claimed", "purgeable">>, <<"retained", "purgeable">>,
                                     \* the collection is deleted
          <<"staged", "gone">>, <<"retained", "gone">>, <<"purgeable", "gone">>,
          <<"gone", "staged">>}      \* adopted by reconciliation

TypeOK == stage \in [Blobs -> Stages]

Init == stage = [k \in Blobs |-> "unborn"]

\* One mutation or collection deletion moves several blobs at once.
Move ==
    /\ stage' \in [Blobs -> Stages]
    /\ \A k \in Blobs : stage'[k] = stage[k] \/ <<stage[k], stage'[k]>> \in Moves

Spec == Init /\ [][Move]_stage
=============================================================================
