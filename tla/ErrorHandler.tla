---------------------------- MODULE ErrorHandler ----------------------------
(***************************************************************************)
(* core/utils/error_handler: which error codes count as errors. Every      *)
(* handler of the connection, transport and session layers asks            *)
(* check_error, and goes on as if nothing had happened when it says no.    *)
(***************************************************************************)

\* The error codes check_error tells apart; "other" stands for the rest
\* (operation_aborted, connection_reset, json incomplete, ...).
ErrorCodes == {"none", "address_in_use", "syntax", "eof", "bad_descriptor",
               "connection_refused", "other"}

check_error(ec) ==
    ec \notin {"none", "address_in_use", "syntax", "connection_refused"}
=============================================================================
