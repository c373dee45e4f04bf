-------------------------------- MODULE Errors -------------------------------
(***************************************************************************)
(* error.rs: the failures of a trait call and the code each backend        *)
(* reports for one.  Context only adds a message: it reports as the error  *)
(* inside it, and is left out.  An Io error without an errno of its own    *)
(* reports EIO.                                                            *)
(***************************************************************************)
EXTENDS Naturals

FsErrors == {"NotFound", "PermissionDenied", "NotADirectory", "IsADirectory",
             "InvalidArgument", "NoXattr", "ReadOnly", "Unsupported", "Io", "Other"}

NFS3_OK == 0
NFS3ERR_NOENT == 2
NFS3ERR_ACCES == 13
NFS3ERR_ROFS == 30
NFS3ERR_NOTSUPP == 10004

\* FsError::to_nfsstat3
ToNfsstat3(e) ==
    CASE e = "NotFound"                   -> NFS3ERR_NOENT
      [] e = "PermissionDenied"           -> NFS3ERR_ACCES
      [] e = "NotADirectory"              -> 20
      [] e = "IsADirectory"               -> 21
      [] e = "InvalidArgument"            -> 22
      [] e \in {"NoXattr", "Unsupported"} -> NFS3ERR_NOTSUPP
      [] e = "ReadOnly"                   -> NFS3ERR_ROFS
      [] e = "Io"                         -> 5
      [] e = "Other"                      -> 10006

ENODATA == 61
ERANGE == 34

\* FsError::to_errno, with Linux's numbers
ToErrno(e) ==
    CASE e = "NotFound"         -> 2
      [] e = "PermissionDenied" -> 13
      [] e = "NotADirectory"    -> 20
      [] e = "IsADirectory"     -> 21
      [] e = "InvalidArgument"  -> 22
      [] e = "NoXattr"          -> ENODATA
      [] e = "ReadOnly"         -> 30
      [] e = "Unsupported"      -> 38
      [] e \in {"Io", "Other"}  -> 5
==============================================================================
