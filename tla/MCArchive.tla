------------------------------- MODULE MCArchive -------------------------------
(***************************************************************************)
(* A small instance of Archive: two users and addresses, one key, two      *)
(* networks, two archives.                                                 *)
(***************************************************************************)
EXTENDS Archive, TLC

\* Two users and two networks beside one archive, or one of each beside two archives.
MCScopes == {[users |-> User, nets |-> Net, folders |-> {f}] : f \in Folder}
         \cup {[users |-> {u}, nets |-> {n}, folders |-> Folder] : u \in User, n \in Net}

MCSymmetry ==
    Permutations(Call) \cup Permutations(User) \cup Permutations(Address)
       \cup Permutations(Folder) \cup Permutations(Net)

=============================================================================
