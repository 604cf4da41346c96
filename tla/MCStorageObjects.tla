------------------------- MODULE MCStorageObjects -------------------------
(* One object name, two users, two requests at a time.                       *)
EXTENDS StorageObjects
=============================================================================
