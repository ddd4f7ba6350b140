------------------------------ MODULE MCUsbBuf ------------------------------
(***************************************************************************)
(* TLC instances of UsbBuf: a pool of two or three buffers.                *)
(***************************************************************************)
EXTENDS UsbBuf
=============================================================================
