--------------------------- MODULE FileOpenFlags ---------------------------
(***************************************************************************)
(* The flags of an open call (src/file_open_flags.go), as the set of the   *)
(* bits that are 1.  O_RDONLY has no bit.  O_EXCL and O_SYNC are not here: *)
(* no code looks at them.                                                  *)
(***************************************************************************)

Bits == {"O_WRONLY", "O_RDWR", "O_CREATE", "O_TRUNC", "O_APPEND"}

(* The flag sets a program can pass: O_WRONLY and O_RDWR are two values of   *)
(* one access mode.                                                          *)
OpenFlags == {flags \in SUBSET Bits : ~({"O_WRONLY", "O_RDWR"} \subseteq flags)}

(* Whether ANY of bits is set.                                               *)
Contains(flags, bits) == flags \cap bits # {}

CanWrite(flags) == Contains(flags, {"O_WRONLY", "O_RDWR"})

(* The flags FileBuffer.initialize refuses without write access.             *)
RequiresWrite(flags) == Contains(flags, {"O_CREATE", "O_TRUNC", "O_APPEND"})

(* Mutant of IsWriteOp: the access modes are forgotten.                      *)
IsWriteOpByEffect(flags) == Contains(flags, {"O_CREATE", "O_TRUNC", "O_APPEND"})

(* The flags AdbFileSystem.createFile refuses on a read-only filesystem.     *)
IsWriteOp(flags) ==
    Contains(flags, {"O_RDWR", "O_WRONLY", "O_CREATE", "O_TRUNC", "O_APPEND"})
=============================================================================
