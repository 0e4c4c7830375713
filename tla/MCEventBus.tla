------------------------------ MODULE MCEventBus ------------------------------
(* The event bus with model values for the subscribed functions.  The     *)
(* model compares functions only for equality, so they are symmetric.    *)
EXTENDS EventBus, TLC

CallbackSymmetry == Permutations(Callbacks)

\* The state without its history: the snapshot a Publish took (read only by
\* DispatchMatchesSnapshot) and the removed flags (read only by
\* RegistryExact).  No action reads either, so states that differ only in
\* them have the same successors and the same HandlersInOrder and
\* SyncOnceAtMostOnce.
StateView ==
  <<backing, length,
    [h \in DOMAIN hs |-> [hs[h] EXCEPT !.removed = FALSE]],
    [caller EXCEPT !.snap = <<>>], gs, published>>

=============================================================================
