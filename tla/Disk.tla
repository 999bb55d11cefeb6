-------------------------------- MODULE Disk --------------------------------
(* What a path of the server's data directory may hold besides a value. *)
CONSTANTS
    Missing,   \* there is no such file
    Torn       \* what a reader would find in the middle of a write
ASSUME DiskValues == Missing # Torn
=============================================================================
