--------------------------- MODULE MCSdkExporter ---------------------------
(* Small instances of SdkExporter for TLC. *)
EXTENDS SdkExporter

Unset == {FALSE}
AnyEncoding == {"fits", "refused", "raises"}
AllModes == {"flush", "shutdown"}
OkOrRaises == {"ok", "raises"}
=============================================================================
