------------------------------- MODULE Shared -------------------------------
(***************************************************************************)
(* Package internal/shared: the credentials both programs load when they   *)
(* start, as a function of what -sslfile holds.                            *)
(***************************************************************************)

\* Nothing, no usable pair of certificate and key, a pair whose certificates are
\* of no use for a pool, everything.
SSLFile == {"missing", "nopair", "nopool", "complete"}

\* CertPool: a file without a usable certificate is a panic.
CertPool(file) == IF file = "missing" THEN "error"
                  ELSE IF file = "complete" THEN "ok" ELSE "panic"

\* TLSConfig: the key pair first, then the pool from the same file.
TLSConfig(file) == IF file \in {"missing", "nopair"} THEN "error" ELSE CertPool(file)

\* How both programs end without credentials: log.Fatal, or the panic.
TLSFailure(file) == IF TLSConfig(file) = "panic" THEN "exit2" ELSE "exit1"

=============================================================================
