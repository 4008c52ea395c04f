--------------------------- MODULE MCEpubPipeline ---------------------------
(* One novel whose text is marked or plain; rounds may be over other novels. *)
EXTENDS EpubPipeline, TLC

CONSTANTS plain, marked

MCBodies == {plain, marked}
MCMarked == {marked}
RoundSymmetry == Permutations(Rounds)

=============================================================================
