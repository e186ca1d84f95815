-------------------------- MODULE MCAdbFileSystem --------------------------
(***************************************************************************)
(* AdbFileSystem for TLC: two requests in a directory of two names.        *)
(***************************************************************************)
EXTENDS AdbFileSystem, TLC

CONSTANTS n1, n2, plain, link, r1, r2

(* A link to n1: n1 may be a cycle, or n2 one link away from a file.         *)
MCLinkTo == [l \in {link} |-> n1]

Call(op, name, flags) == [op |-> op, name |-> name, to |-> n2, flags |-> flags]

(* One request is asked for each operation, at the name where it can meet   *)
(* most; the other for those that change the directory, the cache and the    *)
(* pool the most.                                                            *)
MCCalls ==
    (r1 :> {Call(op, n2, {}) : op \in {"GetAttr", "OpenDir", "Readlink", "Access", "StatFs",
                                       "Unlink"}}
           \cup {Call(op, n1, {}) : op \in {"AccessToWrite", "Mkdir", "Rename", "Rmdir",
                                            "Create", "Unsupported"}}
           \cup {Call("Open", n2, f) : f \in {{}, {"O_WRONLY", "O_CREATE"}, {"O_TRUNC"}}})
    @@ (r2 :> {Call("OpenDir", n1, {}), Call("Rename", n1, {}), Call("StatFs", n1, {})})
=============================================================================
