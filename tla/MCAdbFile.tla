----------------------------- MODULE MCAdbFile -----------------------------
(***************************************************************************)
(* AdbFile for TLC: two handles, opened in each way the code tells apart.  *)
(***************************************************************************)
EXTENDS AdbFile

(* To read, to update in place, to create for writing, to read and rewrite,  *)
(* and to truncate without write access, which the buffer refuses.           *)
MCFlagChoices ==
    {{}, {"O_RDWR"}, {"O_WRONLY", "O_CREATE"}, {"O_RDWR", "O_TRUNC"}, {"O_TRUNC"}}
=============================================================================
