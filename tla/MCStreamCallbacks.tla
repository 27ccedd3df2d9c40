------------------------- MODULE MCStreamCallbacks -------------------------
(* Instances of StreamCallbacks: nodes at once, in turn, and nested streams. *)
EXTENDS StreamCallbacks

=============================================================================
