--------------------------- MODULE LibvirtTransport ---------------------------
(***************************************************************************)
(* One session with libvirtd (crates/banlieue-libvirt: transport.rs,       *)
(* rpc.rs, procs.rs) and the calls a pass of the libvirt provider makes on *)
(* it (machine_client.rs, guest.rs).  The bytes the daemon has sent are a  *)
(* sequence of 32-bit words (XDR is word aligned), so that a read that is  *)
(* abandoned half way really leaves the stream at the wrong offset.  A     *)
(* session is opened per pass, carries one call at a time and is dropped   *)
(* by the first error of a call the pass cannot do without; best-effort    *)
(* calls go on using it.                                                   *)
(***************************************************************************)
EXTENDS Integers, Sequences, FiniteSets, FiniteSetsExt

CONSTANTS Bodies,       \* payloads of a successful reply: sequences of words
          Errors,       \* payloads of an error reply; the first word is the code
          Chunks,       \* stream packets in an upload
          MaxAsks       \* bound: operations a pass asks for on one session

VARIABLES link,     \* how far the session is, and which directions are garbled
          serial,   \* Session.serial, the next call's number
          inbound,  \* words libvirtd has sent and nobody has read
          server,   \* libvirtd: calls being served, replies given, the volume
          call,     \* the call in flight
          plan,     \* calls the current operation still makes
          answer,   \* how the last call ended
          known,    \* guest file handles learnt and not yet asked to be closed
          asks      \* operations asked for

vars == <<link, serial, inbound, server, call, plan, answer, known, asks>>

REMOTE_PROGRAM == 536903814
QEMU_PROGRAM == 536903815
MESSAGE_MIN == 28
MESSAGE_MAX == 33554432
VIR_ERR_NO_DOMAIN == 42

MessageType == [call |-> 0, reply |-> 1, stream |-> 3]
MessageStatus == [ok |-> 0, error |-> 1, continue |-> 2]

\* The calls a pass makes, with their procedure numbers.  Every guest-agent
\* command is the one procedure of the qemu program.
Remote == [auth_list |-> 66, connect_open |-> 1, lookup |-> 23, addresses |-> 353, upload |-> 208]
Opens == {"open_marker", "open_report", "open_ek"}
Agent == Opens \cup {"read", "close", "ping"}
Procs == DOMAIN Remote \cup Agent

program(p) == IF p \in Agent THEN QEMU_PROGRAM ELSE REMOTE_PROGRAM
procedure(p) == IF p \in Agent THEN 1 ELSE Remote[p]

\* TransportError, by what a caller can tell apart.
Results == {"none", "ok", "remote", "timeout", "desync", "protocol"}

NoCall == [proc |-> "none", serial |-> 0, step |-> "idle", sent |-> 0]
NoAnswer == [proc |-> "none", serial |-> 0, result |-> "none", body |-> <<>>]

\* Three address sources are tried in turn.
Sources == 3

encode_message(type, c, status, payload) ==
    <<MESSAGE_MIN + 4 * Len(payload), program(c.proc), 1, procedure(c.proc),
      MessageType[type], c.serial, MessageStatus[status]>> \o payload

-----------------------------------------------------------------------------
(* Receiving.                                                              *)

Words(bytes) == (bytes + 3) \div 4

ValidPrefix(w) == w \in MESSAGE_MIN..MESSAGE_MAX

\* A read can end: the prefix is refused, or the whole message is there.
Readable ==
    /\ inbound # <<>>
    /\ link.skew \/ ~ValidPrefix(inbound[1]) \/ Words(inbound[1]) <= Len(inbound)

\* recv_on_program: what the next read yields, in the order of its checks.
\* A stream read at a byte offset that is not a word's yields garbage.
recv_on_program(p) ==
    LET len == inbound[1]
        n == Words(len)
        bad(k, skew) == [left |-> SubSeq(inbound, k + 1, Len(inbound)), skew |-> skew,
                         ok |-> FALSE, type |-> 0, serial |-> 0, status |-> 0, body |-> <<>>]
    IN  CASE link.skew \/ ~ValidPrefix(len) -> bad(1, link.skew)
          [] inbound[5] \notin 0..6 \/ inbound[7] \notin 0..2 -> bad(n, len % 4 # 0)
          [] inbound[2] # program(p) \/ inbound[3] # 1 -> bad(n, len % 4 # 0)
          [] OTHER -> [left |-> SubSeq(inbound, n + 1, Len(inbound)), skew |-> len % 4 # 0,
                       ok |-> TRUE, type |-> inbound[5], serial |-> inbound[6],
                       status |-> inbound[7], body |-> SubSeq(inbound, 8, n)]

\* A plausible slip: the program check is taken to identify the reply.
serial_unchecked(r, s) == TRUE

serial_matches(r, s) == r.serial = s

\* A plausible slip: whatever the daemon says to the end of the stream is
\* taken for its confirmation.
stream_status_unread(status) == "ok"

stream_status(status) ==
    CASE status = MessageStatus.ok -> "ok"
      [] status = MessageStatus.error -> "remote"
      [] OTHER -> "protocol"

\* call_with_serial_on_program and finish_stream: the result of reading r.
Judge(r) ==
    CASE ~r.ok -> "desync"
      [] ~serial_matches(r, call.serial) -> "desync"
      [] call.step = "finish" -> stream_status(r.status)
      [] r.type # MessageType.reply -> "desync"
      [] r.status = MessageStatus.ok -> "ok"
      [] r.status = MessageStatus.error -> "remote"
      [] OTHER -> "desync"

-----------------------------------------------------------------------------
(* What the pass does with the end of a call.                              *)

\* The code a remote error carries; a payload that does not decode has none.
decode_remote_error(body) == IF body = <<>> THEN 0 ELSE body[1]

is_not_found(result, body) ==
    result = "remote" /\ decode_remote_error(body) = VIR_ERR_NO_DOMAIN

\* decode_domain_qemu_agent_command_ret, then parse_file_handle: an optional
\* string, which names a handle or is the agent's error text.
HasReply(result, body) == result = "ok" /\ body # <<>> /\ body[1] = 1
HasHandle(result, body) == HasReply(result, body) /\ Len(body) > 1 /\ body[2] = MESSAGE_MIN

\* A plausible slip: a report that could not be read is not closed either.
report_left_open(result, body) == IF HasHandle(result, body) THEN <<"read">> ELSE <<>>

\* read_sealed_report: read and close, however the read went.
read_sealed_report(result, body) ==
    IF HasHandle(result, body) THEN <<"read", "close">> ELSE <<>>

read_ek_certificate(result, body) ==
    IF HasHandle(result, body) THEN <<"read", "close">> ELSE <<>>

\* The agent is pinged to tell an absent marker from an absent agent.
classify_open_failure == <<"ping">>

probe_guest(result, body) ==
    CASE ~HasReply(result, body) -> classify_open_failure
      [] HasHandle(result, body) -> <<"read", "close">>
      [] OTHER -> <<>>

\* domain_addresses: the first source that answers with an address ends it.
AddressesFound(result, body) == result = "ok" /\ body # <<>> /\ body[1] = 1

\* connect_open goes on only if the daemon offers REMOTE_AUTH_NONE: the
\* client certificate is the credential.
OffersNone(body) == body # <<>> /\ body[1] = 1

\* The errors a pass survives: an object that is not there, and anything a
\* best-effort call meets.
Survives(p, result, body) ==
    \/ result = "ok" /\ (p = "auth_list" => OffersNone(body))
    \/ p = "lookup" /\ is_not_found(result, body)
    \/ p = "addresses" /\ result # "protocol"
    \/ p \in Agent

PlanAfter(p, result, body, rest) ==
    CASE p = "open_marker" -> probe_guest(result, body) \o rest
      [] p = "open_report" -> read_sealed_report(result, body) \o rest
      [] p = "open_ek" -> read_ek_certificate(result, body) \o rest
      [] p = "addresses" /\ AddressesFound(result, body) ->
            SelectSeq(rest, LAMBDA q : q # "addresses")
      [] OTHER -> rest

KnownAfter(p, result, body) ==
    IF p \in Opens /\ HasHandle(result, body) THEN known + 1 ELSE known

\* The call ends: the session is dropped, or the pass goes on.
End(result, body, l) ==
    /\ call' = NoCall
    /\ answer' = [proc |-> call.proc, serial |-> call.serial, result |-> result, body |-> body]
    /\ known' = KnownAfter(call.proc, result, body)
    /\ IF Survives(call.proc, result, body)
       THEN /\ plan' = PlanAfter(call.proc, result, body, plan)
            /\ link' = IF call.proc = "connect_open" THEN [l EXCEPT !.stage = "open"] ELSE l
       ELSE /\ plan' = <<>>
            /\ link' = [l EXCEPT !.stage = "closed"]

-----------------------------------------------------------------------------
(* The session.                                                            *)

Init ==
    /\ link = [stage |-> "tls", skew |-> FALSE, deaf |-> FALSE]
    /\ serial = 0
    /\ inbound = <<>>
    /\ server = [pending |-> {}, served |-> {}, volume |-> 0, failed |-> FALSE]
    /\ call = NoCall
    /\ plan = <<>>
    /\ answer = NoAnswer
    /\ known = 0
    /\ asks = 0

\* connect_tls_with_timeout: the handshake, then the confirmation byte, read
\* before anything else; connect_open sends AUTH_LIST and then CONNECT_OPEN.
connect_tls ==
    /\ link.stage = "tls"
    /\ \/ /\ link' = [link EXCEPT !.stage = "auth"]
          /\ plan' = <<"auth_list", "connect_open">>
       \/ /\ link' = [link EXCEPT !.stage = "closed"]
          /\ plan' = plan
    /\ UNCHANGED <<serial, inbound, server, call, answer, known, asks>>

\* The pass asks for its next operation.
Ask ==
    /\ link.stage = "open" /\ call = NoCall /\ plan = <<>> /\ asks < MaxAsks
    /\ plan' \in {<<o>> : o \in Opens \cup {"lookup", "upload"}}
                  \cup {[i \in 1..Sources |-> "addresses"]}
    /\ asks' = asks + 1
    /\ UNCHANGED <<link, serial, inbound, server, call, answer, known>>

NextCall == [proc |-> Head(plan), serial |-> serial, step |-> "reply", sent |-> 0]

\* Session::send within a call: the request is written whole.
Send ==
    /\ link.stage \in {"auth", "open"} /\ call = NoCall /\ plan # <<>>
    /\ call' = NextCall
    /\ serial' = serial + 1
    /\ plan' = Tail(plan)
    /\ known' = IF Head(plan) = "close" THEN known - 1 ELSE known
    /\ server' = IF link.deaf THEN server
                 ELSE [server EXCEPT !.pending = @ \cup {NextCall}]
    /\ UNCHANGED <<link, inbound, answer, asks>>

\* The daemon answers a call it serves.  Calls are served concurrently, so
\* an earlier one may be answered later.  An upload's reply opens its
\* stream; the answer to the end of the stream is a stream message.
Reply ==
    \E c \in server.pending :
        \E s \in {"ok", "error"} : \E b \in IF s = "error" THEN Errors
                                            ELSE IF c.proc = "upload" THEN {<<>>} ELSE Bodies :
            /\ c.step = "finish" /\ s = "ok" => ~server.failed
            /\ inbound' = inbound \o
                   encode_message(IF c.step = "finish" THEN "stream" ELSE "reply", c, s, b)
            /\ server' = [server EXCEPT !.pending = @ \ {c},
                            !.served = @ \cup {[proc |-> c.proc, serial |-> c.serial, body |-> b]},
                            !.volume = IF c.proc = "upload" /\ c.step = "reply" THEN 0 ELSE @,
                            !.failed = IF c.step = "reply" /\ c.proc = "upload" THEN FALSE ELSE @]
            /\ UNCHANGED <<link, serial, call, plan, answer, known, asks>>

Streaming == call.proc = "upload" /\ call.step = "stream"

\* The daemon gives up on a stream it has opened (no space, an I/O error)
\* and says so; what the client still sends is dropped.
StreamFails ==
    /\ ~server.failed
    /\ Streaming \/ (call.step = "finish" /\ call \in server.pending)
    /\ \E e \in Errors : inbound' = inbound \o encode_message("stream", call, "error", e)
    /\ server' = [server EXCEPT !.failed = TRUE, !.pending = {c \in @ : c.serial # call.serial}]
    /\ UNCHANGED <<link, serial, call, plan, answer, known, asks>>

\* The reply is there, or what is there cannot be one.
Receive ==
    /\ call.step \in {"reply", "finish"} /\ Readable
    /\ LET r == recv_on_program(call.proc)
           result == Judge(r)
           l == [link EXCEPT !.skew = r.skew]
       IN  /\ inbound' = r.left
           /\ IF call.proc = "upload" /\ call.step = "reply" /\ result = "ok"
              THEN /\ call' = [call EXCEPT !.step = "stream"]
                   /\ link' = l
                   /\ UNCHANGED <<plan, answer, known>>
              ELSE End(result, r.body, l)
    /\ UNCHANGED <<serial, server, asks>>

\* The deadline passes.  The read is dropped with whatever it had already
\* taken from the stream, possibly in the middle of a word.
ReceiveTimeout ==
    /\ call.step \in {"reply", "finish"}
    /\ LET most == IF inbound = <<>> \/ link.skew \/ ~ValidPrefix(inbound[1]) THEN 0
                   ELSE Min({Len(inbound), Words(inbound[1]) - 1})
       IN  \E k \in {0, 1, most} : k <= most /\ \E skew \in {link.skew, k < most \/ link.skew} :
               /\ inbound' = SubSeq(inbound, k + 1, Len(inbound))
               /\ End("timeout", <<>>, [link EXCEPT !.skew = skew])
    /\ UNCHANGED <<serial, server, asks>>

\* A write stalls past its deadline: the daemon is left in the middle of a
\* message and understands nothing that follows.
SendTimeout ==
    /\ call = NoCall /\ plan # <<>> /\ link.stage \in {"auth", "open"}
    /\ LET c == NextCall
           on == Survives(c.proc, "timeout", <<>>)
       IN  /\ answer' = [proc |-> c.proc, serial |-> c.serial, result |-> "timeout", body |-> <<>>]
           /\ plan' = IF on THEN PlanAfter(c.proc, "timeout", <<>>, Tail(plan)) ELSE <<>>
           /\ known' = IF c.proc = "close" THEN known - 1 ELSE known
           /\ link' = [link EXCEPT !.deaf = TRUE, !.stage = IF on THEN @ ELSE "closed"]
    /\ serial' = serial + 1
    /\ UNCHANGED <<inbound, server, call, asks>>

\* A plausible slip: the last chunk is left to the end of the stream.
upload_nearly_done(sent) == sent >= Chunks - 1

upload_done(sent) == sent >= Chunks

\* storage_vol_upload: one packet of the source, while some is left; a
\* source that ends early ends the call.
send_stream_data ==
    /\ Streaming /\ ~upload_done(call.sent)
    /\ \/ /\ call' = [call EXCEPT !.sent = @ + 1]
          /\ server' = [server EXCEPT !.volume = IF server.failed THEN @ ELSE @ + 1]
          /\ UNCHANGED <<link, plan, answer, known>>
       \/ End("protocol", <<>>, link) /\ server' = server
    /\ UNCHANGED <<serial, inbound, asks>>

\* finish_stream: the end of the stream is sent, its answer is awaited.
finish_stream ==
    /\ Streaming /\ upload_done(call.sent)
    /\ call' = [call EXCEPT !.step = "finish"]
    /\ server' = IF server.failed THEN server
                 ELSE [server EXCEPT !.pending = @ \cup {[call EXCEPT !.step = "finish"]}]
    /\ UNCHANGED <<link, serial, inbound, plan, answer, known, asks>>

Next ==
    \/ connect_tls \/ Ask \/ Send \/ Reply \/ StreamFails \/ Receive
    \/ ReceiveTimeout \/ SendTimeout \/ send_stream_data \/ finish_stream

Fairness == WF_vars(Receive \/ ReceiveTimeout) /\ WF_vars(send_stream_data \/ finish_stream)

Spec == Init /\ [][Next]_vars /\ Fairness

-----------------------------------------------------------------------------
\* A call that succeeds returns what libvirtd answered to that very call: a
\* reply that comes after its call's deadline is never handed to the next
\* call, and neither is a stream read from the wrong offset
\* (call_with_serial_on_program, recv_on_program).
AnswerIsOwn ==
    answer.result = "ok" =>
        \E s \in server.served :
            s.proc = answer.proc /\ s.serial = answer.serial /\ s.body = answer.body

\* An upload that succeeds has stored the whole source: the daemon confirmed
\* a stream it had received to the last packet (finish_stream,
\* storage_vol_upload).
UploadWhole ==
    (answer.proc = "upload" /\ answer.result = "ok" /\ call = NoCall) =>
        server.volume = Chunks /\ ~server.failed

\* However the read of a guest file went, a handle the pass learnt of is
\* asked to be closed before the pass turns to anything else, or the guest
\* agent's table fills up (probe_guest, read_sealed_report).
HandlesReturned == (plan = <<>> /\ call = NoCall) => known = 0

\* No call waits for ever: a daemon that stops answering costs a pass its
\* deadlines and not the controller (DEFAULT_TIMEOUT).
CallEnds == (call # NoCall) ~> (call = NoCall)

TypeOK ==
    /\ link.stage \in {"tls", "auth", "open", "closed"}
    /\ serial \in Nat /\ known \in Nat
    /\ call.proc \in Procs \cup {"none"} /\ \A i \in DOMAIN plan : plan[i] \in Procs
    /\ answer.result \in Results

SessionSound == AnswerIsOwn /\ UploadWhole /\ HandlesReturned
=============================================================================
