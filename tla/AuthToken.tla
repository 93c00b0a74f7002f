----------------------------- MODULE AuthToken ------------------------------
(***************************************************************************)
(* The token in an AuthRequest and the server's verdict on it:             *)
(* build_auth_token and verify_auth_token (src/common/crypto.cpp) and      *)
(* their use in ClientSession::handle_packet (src/server/session.cpp).     *)
(* Time is an unsigned word.  HMAC-SHA256 is OpenSSL's, and taken to be    *)
(* injective: a token is what it was made of.                              *)
(***************************************************************************)
EXTENDS Integers

CONSTANTS
    TimeSpan,        \* number of values of a uint64_t: 2^64 in the program
    Window           \* seconds to either side: 30 in the program

ASSUME TimeAssumption ==
    /\ TimeSpan \in Nat /\ Window \in Nat
    /\ TimeSpan > 2 * Window + 2

Times == 0 .. TimeSpan - 1

\* auth_secret is empty.
NoSecret == "none"

build_auth_token(credentials, timestamp) == <<credentials, timestamp>>

\* The loop of verify_auth_token: where it starts, the last time it tries, its k-th time,
\* and whether it gets there if no time before matches.
First(timestamp)    == (timestamp - Window) % TimeSpan
Last(timestamp)     == (timestamp + Window) % TimeSpan
Try(timestamp, k)   == (First(timestamp) + k) % TimeSpan
Gets(timestamp, k)  == \A j \in 0 .. k : Try(timestamp, j) <= Last(timestamp)

\* A loop that tries every word there is never ends.
verify_auth_token(credentials, token, timestamp) ==
    CASE \E k \in Times : /\ Gets(timestamp, k)
                          /\ token = build_auth_token(credentials, Try(timestamp, k)) -> "yes"
      [] OTHER -> IF Gets(timestamp, TimeSpan - 1) THEN "never" ELSE "no"

\* Broken variant: only the server's own time is tried.
Verdict_ServerTime(secret, token, timestamp, now) ==
    IF secret = NoSecret THEN "yes" ELSE verify_auth_token(secret, token, now)

\* The time the client says it is, then the server's.  Without a secret anyone is let in.
Verdict(secret, token, timestamp, now) ==
    LET claimed == verify_auth_token(secret, token, timestamp)
    IN  CASE secret = NoSecret -> "yes"
          [] secret # NoSecret /\ claimed # "no" -> claimed
          [] OTHER -> verify_auth_token(secret, token, now)
=============================================================================
