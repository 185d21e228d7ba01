----------------------------- MODULE ShareTokens ----------------------------
(***************************************************************************)
(* Share tokens: links to a source that anybody who holds them may         *)
(* resolve, until they expire, are used up or are revoked.  A resolve      *)
(* reads the row, and writes the access count it read plus one.            *)
(***************************************************************************)
EXTENDS Requests

CONSTANTS
  TokenIds,  \* tokens, each with its row, each issued once
  Limits     \* values of maxAccessCount; None for no limit

Token == [user : Users, limit : Limits, count : Nat, expiring : BOOLEAN, expired : BOOLEAN]

ASSUME ShareTokensAssumption ==
  Limits \subseteq (Nat \ {0}) \union {None} /\ None \notin Token

VARIABLES
  tokens,     \* dui_share_token
  issued,
  accepted,   \* history: how many resolves of each token were answered
  overlapped  \* history: tokens of which two resolves were under way at once

tokenVars == <<tokens, issued, accepted, overlapped>>

ShareTokensInit ==
  /\ tokens = [t \in TokenIds |-> None]
  /\ issued = {} /\ overlapped = {}
  /\ accepted = [t \in TokenIds |-> 0]

(* create: the source a token points to is taken on the caller's word.     *)
CreateToken(c) ==
  \E ctx \in Contexts : \E t \in TokenIds \ issued :
    \E limit \in Limits : \E expiring \in BOOLEAN :
      /\ Once(c, ctx)
      /\ issued' = issued \union {t}
      /\ tokens' = [tokens EXCEPT ![t] = [user |-> ctx.user, limit |-> limit, count |-> 0,
                                          expiring |-> expiring, expired |-> FALSE]]
      /\ UNCHANGED <<accepted, overlapped>>

(* delete: by id and creator, no error if there is no such row.            *)
DeleteToken(c) ==
  \E ctx \in Contexts : \E t \in issued :
    /\ Once(c, ctx)
    /\ tokens' = IF tokens[t] # None /\ tokens[t].user = ctx.user
                 THEN [tokens EXCEPT ![t] = None] ELSE tokens
    /\ UNCHANGED <<issued, accepted, overlapped>>

(* The clock passes expires_at.                                            *)
Expire ==
  \E t \in issued :
    /\ tokens[t] # None /\ tokens[t].expiring /\ ~tokens[t].expired
    /\ tokens' = [tokens EXCEPT ![t] = [@ EXCEPT !.expired = TRUE]]
    /\ UNCHANGED <<issued, accepted, overlapped, reqVars>>

(* The lookup by hash, or among the legacy hashes; a miss is a 404.        *)
Found(t) == t \in issued /\ tokens[t] # None
Exhausted_Last(t) ==  \* variant: off by one
  tokens[t].limit # None /\ tokens[t].count > tokens[t].limit
Exhausted(t) == tokens[t].limit # None /\ tokens[t].count >= tokens[t].limit
Resolving(t) == \E c \in Clients : calls[c].pc = "resolve" /\ calls[c].id = t

(* resolve (GET /shared and /embed, no authentication): the SELECT takes   *)
(* no lock; an expired or exhausted token is a 410.                        *)
ResolveRead(c) ==
  \E t \in issued :
    /\ Found(t) /\ ~tokens[t].expired /\ ~Exhausted(t)
    /\ Begin(c, Call("resolve", None, t, tokens[t].count))
    /\ overlapped' = IF Resolving(t) THEN overlapped \union {t} ELSE overlapped
    /\ UNCHANGED <<tokens, issued, accepted>>

(* The UPDATE and the commit, then the answer; a token revoked meanwhile   *)
(* is still answered.  The transaction may fail instead, and a commit may  *)
(* go through unseen, or before the process stops: then nobody is answered. *)
ResolveWrite(c) ==
  LET call == calls[c]
      counted == IF tokens[call.id] = None THEN tokens
                 ELSE [tokens EXCEPT ![call.id] = [@ EXCEPT !.count = call.arg + 1]]
  IN
  /\ call.pc = "resolve"
  /\ \/ tokens' = counted /\ accepted' = [accepted EXCEPT ![call.id] = @ + 1]
     \/ tokens' \in {counted, tokens} /\ UNCHANGED accepted
  /\ Return(c)
  /\ UNCHANGED <<issued, overlapped>>

TokenStep(c) == CreateToken(c) \/ DeleteToken(c) \/ ResolveRead(c) \/ ResolveWrite(c)
-----------------------------------------------------------------------------
TokensTypeOK ==
  /\ tokens \in [TokenIds -> Token \union {None}]
  /\ issued \subseteq TokenIds /\ overlapped \subseteq issued
  /\ accepted \in [TokenIds -> Nat]

(* A token with a limit never records more accesses than the limit,        *)
(* however resolves interleave.  Without two resolves of the token at once *)
(* it records each one that was answered, so the limit holds for those as  *)
(* well; with them, answers go uncounted.  A resolve that is cut short may *)
(* be recorded and not answered.                                           *)
AccessesCounted ==
  \A t \in issued : tokens[t] # None =>
    /\ tokens[t].limit # None => tokens[t].count <= tokens[t].limit
    /\ t \notin overlapped => accepted[t] <= tokens[t].count
=============================================================================
