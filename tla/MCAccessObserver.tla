-------------------------- MODULE MCAccessObserver --------------------------
\* An instance of AccessObserver for TLC, where inode numbers come back.
EXTENDS AccessObserver, TLC

\* Inode numbers are interchangeable.
Symmetry == Permutations(Inode)
=============================================================================
