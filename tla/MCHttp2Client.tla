---------------------------- MODULE MCHttp2Client ----------------------------
(* A small instance of Http2Client for TLC: a slot holder and a waiter, a    *)
(* peer that allows one stream or two, and a session that is replaced twice. *)
EXTENDS Http2Client

CONSTANTS r1, r2

TwoRequests == {r1, r2}

PeerOneOrTwo == {1, 2}
=============================================================================
