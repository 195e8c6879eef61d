------------------------------- MODULE MCVnode -------------------------------
(* Two threads in one directory of a volume with one inode to give away.         *)
EXTENDS Vnode, TLC

CONSTANTS t, u

\* Both create and unlink the one name.
Creating == [x \in {t, u} |-> {"create", "unlink"}]

\* One creates and opens it, the other unlinks it.
Opening == t :> {"create", "open"} @@ u :> {"unlink"}
==============================================================================
