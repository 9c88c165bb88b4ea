--------------------------- MODULE MCQemuIothread ---------------------------
(* Three QEMU threads (main loop, two vCPUs), three calls of state().     *)
EXTENDS QemuIothread
=============================================================================
