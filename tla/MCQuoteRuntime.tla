--------------------------- MODULE MCQuoteRuntime ---------------------------
(***************************************************************************)
(* Two or three subscriptions, a queue of one or two permits, and more     *)
(* versions than the tasks can hold tokens.                                *)
(*                                                                         *)
(* A task only ever compares the token it holds with the current one, and  *)
(* Fresh never returns a held one, so a stale token stays stale whatever   *)
(* its version: states that agree on View have the same successors up to   *)
(* View, and satisfy the same properties.                                  *)
(***************************************************************************)
EXTENDS QuoteRuntime

MCVersion == 1..9

Seen(t) == IF t = NoToken THEN "none" ELSE IF t = token THEN "current" ELSE "stale"
SeenItems(s) == [i \in 1..Len(s) |-> <<s[i].kind, s[i].connection, Seen(s[i].admission)>>]

View == <<token.state, snapshot, active, connection, pump, signal, pc, candidate,
          needs_head, watch, unchanged, SeenItems(outgoing), SeenItems(queue),
          SeenItems(segment), Seen(lease), Seen(correcting), Seen(publishing),
          Seen(sampled)>>

=============================================================================
