------------------------------ MODULE MCStorage ------------------------------
(* Instances of Storage for TLC. *)
EXTENDS StorageProperties, TLC

(* Nothing orders or names a handler, a user, a mailbox, a password or an   *)
(* identifier. *)
Symmetry ==
    Permutations(Handlers) \cup Permutations(Names) \cup Permutations(Addresses)
      \cup Permutations(Secrets) \cup Permutations(Mids)
=============================================================================
