---------------------------- MODULE MCEncryption ----------------------------
(***************************************************************************)
(* Model-checking instance of Encryption.  Nodes are symmetric, and so are *)
(* keys when all of them are valid.                                        *)
(***************************************************************************)
EXTENDS Encryption, TLC

NodeSymmetry == Permutations(Node)
Symmetry == Permutations(Node) \cup Permutations(Key)

\* Other secrets than the annotated one come and go until the last campaign.
OneSecretLast == requests < MaxRequests \/ Present = {Annotated}
=============================================================================
