--------------------------- MODULE HostCredential ---------------------------
(***************************************************************************)
(* The cluster credential of a Cloud Hypervisor host: issued by `bootstrap *)
(* cloud-hypervisor-host` (banlieue-operator: host_credential.rs), put on  *)
(* the host, and renewed there at half its life by the provider itself     *)
(* (token.rs).  A tick is the minute after which the kube client reads the *)
(* file again and a failed renewal is tried again; the host's clock, which *)
(* decides when a renewal is due, may be behind the API server's.          *)
(***************************************************************************)
EXTENDS Integers, FiniteSets

CONSTANTS First,        \* ticks the issued token lives
          Least,        \* the least that may be asked for
          Lifetime,     \* ticks a renewed token lives
          Skew,         \* ticks the host's clock may be behind
          MaxBlocked    \* bound: ticks in a token's life in which it cannot be renewed

VARIABLES out,          \* what the administrator's directory holds
          file,         \* the token file on the host
          held,         \* the token the kube client presents
          proc,         \* the provider's renewal loop, and how long it sleeps
          skew,         \* how far the host's clock is behind
          blocked       \* ticks the current token could not have been renewed

vars == <<out, file, held, proc, skew, blocked>>

\* A token by its life and what is left of it; junk is no token at all.
NoToken == [kind |-> "none", life |-> 0, left |-> 0]
Junk == [kind |-> "junk", life |-> 0, left |-> 0]
Token(life) == [kind |-> "sa", life |-> life, left |-> life]
Age(t) == [t EXCEPT !.left = IF @ = 0 THEN 0 ELSE @ - 1]

Init ==
    /\ out = [kubeconfig |-> FALSE, token |-> NoToken]
    /\ file = NoToken /\ held = NoToken
    /\ proc = [pc |-> "down", wait |-> 0]
    /\ skew \in 0..Skew
    /\ blocked = 0

Fails == blocked < MaxBlocked /\ blocked' = blocked + 1

-----------------------------------------------------------------------------
(* Issuing.                                                                *)

\* run: the token is requested before anything is written; neither file may
\* exist yet, so a directory left by an interrupted run is refused.
write_kubeconfig ==
    /\ First >= Least /\ ~out.kubeconfig /\ file = NoToken
    /\ out' = [kubeconfig |-> TRUE, token |-> NoToken]
    /\ UNCHANGED <<file, held, proc, skew, blocked>>

write_private ==
    /\ out.kubeconfig /\ out.token = NoToken /\ file = NoToken
    /\ out' = [out EXCEPT !.token = Token(First)]
    /\ blocked' = 0
    /\ UNCHANGED <<file, held, proc, skew>>

\* Another directory, after a run that was interrupted or whose token has aged.
NewDirectory ==
    /\ out.kubeconfig /\ file = NoToken
    /\ out' = [kubeconfig |-> FALSE, token |-> NoToken] /\ blocked' = 0
    /\ UNCHANGED <<file, held, proc, skew>>

Copy ==
    /\ out.token # NoToken /\ file = NoToken
    /\ file' = out.token
    /\ out' = [kubeconfig |-> FALSE, token |-> NoToken]
    /\ UNCHANGED <<held, proc, skew, blocked>>

-----------------------------------------------------------------------------
(* Renewal.                                                                *)

\* The process starts only with a kubeconfig, and its token file, in place.
token_file_of ==
    /\ proc.pc = "down" /\ file # NoToken
    /\ held' = file
    /\ proc' = [pc |-> "read", wait |-> 0]
    /\ UNCHANGED <<out, file, skew, blocked>>

renew_in_whole(t) == t.left + skew

\* Half-way through the life, by the host's clock, or at once past it.
renew_in(t) ==
    LET age == t.life - t.left - skew
        half == t.life \div 2
    IN  IF half > age THEN half - age ELSE 0

\* A file that holds no ServiceAccount token ends the loop for good.
parse ==
    /\ proc.pc = "read"
    /\ proc' = IF file.kind # "sa" THEN [pc |-> "stopped", wait |-> 0]
               ELSE [pc |-> "sleep", wait |-> renew_in(file)]
    /\ UNCHANGED <<out, file, held, skew, blocked>>

\* What the file may hold if the process stops while it is written in place.
write_token_in_place(old, new) == {old, Junk, new}

\* A new file is renamed over the old one.
write_token(old, new) == {old, new}

Retry == proc' = [pc |-> "retry", wait |-> 1]

\* A request that fails, that returns no token or whose token cannot be written
\* is repeated after RETRY_AFTER_FAILURE.
request ==
    /\ proc.pc = "sleep" /\ proc.wait = 0
    /\ \/ /\ held.left > 0
          /\ file' = Token(Lifetime) /\ blocked' = 0
          /\ proc' = [pc |-> "read", wait |-> 0]
       \/ Fails /\ Retry /\ UNCHANGED file
       \/ held.left = 0 /\ Retry /\ UNCHANGED <<file, blocked>>
    /\ UNCHANGED <<out, held, skew>>

Retried ==
    /\ proc.pc = "retry" /\ proc.wait = 0
    /\ proc' = [pc |-> "read", wait |-> 0]
    /\ UNCHANGED <<out, file, held, skew, blocked>>

\* The process or the host stops, perhaps while the new token is written.
Stop ==
    /\ proc.pc # "down"
    /\ proc' = [pc |-> "down", wait |-> 0]
    /\ held' = NoToken
    /\ IF proc.pc = "sleep" /\ proc.wait = 0 /\ held.left > 0
       THEN file' \in write_token(file, Token(Lifetime))
       ELSE file' = file
    /\ UNCHANGED <<out, skew, blocked>>

\* Time passes, over no step of the loop that is due.  A token on its way to
\* the host, or on a host that is down, cannot be renewed meanwhile.
Tick ==
    /\ proc.pc \in {"down", "stopped"} \/ proc.wait > 0
    /\ IF proc.pc = "down" /\ (file # NoToken \/ out.token # NoToken) THEN Fails ELSE blocked' = blocked
    /\ out' = [out EXCEPT !.token = Age(@)]
    /\ file' = Age(file)
    /\ held' = IF proc.pc = "down" THEN NoToken ELSE Age(file)
    /\ proc' = [proc EXCEPT !.wait = IF @ = 0 THEN 0 ELSE @ - 1]
    /\ UNCHANGED skew

Next ==
    \/ write_kubeconfig \/ write_private \/ NewDirectory \/ Copy
    \/ token_file_of \/ parse \/ request \/ Retried \/ Stop \/ Tick

\* The loop's own steps, the start of the process by systemd, and time.
Fairness == WF_vars(parse \/ request \/ Retried) /\ WF_vars(token_file_of) /\ WF_vars(Tick)

Spec == Init /\ [][Next]_vars /\ Fairness

-----------------------------------------------------------------------------
\* A provider that runs holds a token the API server accepts, whenever and
\* however often it was stopped and whenever renewals failed, as long as the
\* time lost in one token's life is shorter than what half a life leaves after
\* the clocks' difference: renewal is in time, and a stop never leaves a file
\* that ends it.
CredentialLives ==
    proc.pc # "down" => held.kind = "sa" /\ held.left > 0 /\ proc.pc # "stopped"
=============================================================================
