---------------------------- MODULE ProxiedStream ----------------------------
(***************************************************************************)
(* A TCP connection from a trusted proxy (proxy_protocol.rs read_header,   *)
(* Rewound): its PROXY header is read in whatever pieces the network       *)
(* brings, and what was read past it is given to the protocol that         *)
(* follows, before the rest.                                               *)
(***************************************************************************)
EXTENDS ProxyProtocol

CONSTANTS Arrivals,     \* what a proxy may send, as sequences of units
          MaxChunk      \* bound: the units one read brings

VARIABLES coming,    \* what is still to arrive
          whole,     \* ghost: everything the proxy sends
          buf,       \* what read_header has read
          outcome,   \* "reading", a client, "none", "invalid" or "eof"
          prefix,    \* Rewound's prefix
          yielded    \* what the protocol that follows has read

proxiedVars == <<coming, whole, buf, outcome, prefix, yielded>>

StartWith(streams) ==
    /\ \E s \in streams : \E n \in 0..Len(s) : coming = SubSeq(s, 1, n)
    /\ whole = coming /\ buf = <<>> /\ outcome = "reading" /\ prefix = <<>> /\ yielded = <<>>
Init == StartWith(Arrivals)

Take(n) == SubSeq(coming, 1, n)
Rest(seq, n) == SubSeq(seq, n + 1, Len(seq))
Chunks == {n \in 1..MaxChunk : n <= Len(coming)}

(* read_header: the header is parsed again after every read, until it is whole. *)
ReadHeader ==
    /\ outcome = "reading"
    /\ LET parsed == Parse(buf)
       IN  CASE parsed.is = "invalid" -> outcome' = "invalid" /\ UNCHANGED <<coming, buf, prefix>>
             [] parsed.is = "complete" ->
                  outcome' = parsed.source /\ prefix' = Rest(buf, parsed.len) /\ UNCHANGED <<coming, buf>>
             [] OTHER -> IF coming = <<>>
                         THEN outcome' = "eof" /\ UNCHANGED <<coming, buf, prefix>>
                         ELSE \E n \in Chunks :
                                /\ buf' = buf \o Take(n) /\ coming' = Rest(coming, n)
                                /\ UNCHANGED <<outcome, prefix>>
    /\ UNCHANGED <<whole, yielded>>

(* Rewound::poll_read: the prefix first, as much of it as there is room for. *)
PollRead(n) ==
    /\ outcome \in {"client", "none"}
    /\ IF prefix = <<>>
       THEN /\ n \in Chunks
            /\ yielded' = yielded \o Take(n) /\ coming' = Rest(coming, n) /\ UNCHANGED prefix
       ELSE LET len == IF n < Len(prefix) THEN n ELSE Len(prefix)
            IN  /\ yielded' = yielded \o SubSeq(prefix, 1, len) /\ prefix' = Rest(prefix, len)
                /\ UNCHANGED coming
    /\ UNCHANGED <<whole, buf, outcome>>

Next == ReadHeader \/ \E n \in 1..MaxChunk : PollRead(n)

-----------------------------------------------------------------------------
(* However the network cuts what a proxy sends, the header names the client it would name if all   *)
(* of it had come at once, or is refused as it would be, and the protocol that follows reads what  *)
(* comes after the header, all of it, in order and once (read_header, Rewound).                    *)
CutsDoNotMatter ==
    LET parsed == Parse(whole)
    IN  /\ outcome = "invalid" => parsed.is = "invalid"
        /\ outcome = "eof" => parsed.is = "incomplete"
        /\ outcome \in {"client", "none"} =>
               parsed.is = "complete" /\ outcome = parsed.source
                   /\ yielded \o prefix \o coming = Rest(whole, parsed.len)

=============================================================================
