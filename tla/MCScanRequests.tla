--------------------------- MODULE MCScanRequests ---------------------------
(* Small instances of ScanRequests for TLC. *)
EXTENDS ScanRequests

CONSTANTS s1, s2

(* Two boards of one platform, one of them learned; a keyed provider.      *)
UrlUsed == [learned |-> "u1", configured |-> "u2", again |-> "u2", keyed |-> "k",
            verify |-> "u2"]
OriginUsed == [u1 |-> "ats", u2 |-> "ats", k |-> "provider"]
BoardUsed == [u1 |-> "b1", u2 |-> "b2", k |-> None]
SourceUsed == [learned |-> "ashby", configured |-> "ashby", again |-> "ashby", keyed |-> "jobspipe",
               verify |-> "jobicy"]

(* One scan of everything, and one of the learned board alone. *)
CallsUsed == [s \in Scans |-> IF s = s1 THEN Fetches ELSE {"learned"}]
=============================================================================
