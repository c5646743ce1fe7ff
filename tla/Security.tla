----------------------------- MODULE Security -------------------------------
(***************************************************************************)
(* The two parts of gbnet/src/security.rs that remember, and forget to     *)
(* stay bounded: TokenValidator, which accepts a connect token once, and   *)
(* ConnectionRateLimiter, which counts the requests of an IP address.      *)
(* They share nothing; each has a next-state relation of its own.          *)
(*                                                                         *)
(* Times are ages and stop where the code no longer tells them apart.      *)
(* Entries of used_tokens are kept in the order of their times, which no   *)
(* two calls share, as those of a vector of timestamps are; what retain()  *)
(* leaves of them is then their end.  A client has one token at a time;    *)
(* since_accepted stops at TokenLifetime, and is that of a token not yet   *)
(* accepted.                                                               *)
(***************************************************************************)
EXTENDS Naturals, Sequences, FiniteSets

CONSTANTS
  Clients,              \* client ids
  ExpireDuration,       \* of a token
  TokenLifetime,        \* of an entry of used_tokens, whatever the token's own
  MaxTrackedTokens,
  Addresses,            \* socket addresses [ip, port]
  Window,
  MaxRequests           \* max_requests_per_second

ASSUME SecurityAssumption ==
  /\ {ExpireDuration, TokenLifetime, MaxTrackedTokens, MaxRequests} \subseteq Nat
  /\ Window \in Nat \ {0}
  /\ \A addr \in Addresses : DOMAIN addr = {"ip", "port"}

VARIABLES
  token_age,      \* client -> age of its token
  used_tokens,    \* <<[client, age], ...>>, oldest first
  requests,       \* ip -> the ages of its timestamps, oldest first
  since_accepted, \* history: client -> time since its token was accepted
  others,         \* history: client -> clients accepted since its token was
  replayed,       \* history: was a token accepted again too early?
  granted         \* history: ip -> the ages of the requests allowed within Window

tokenVars == <<token_age, used_tokens, since_accepted, others, replayed>>
limiterVars == <<requests, granted>>

IPs == {addr.ip : addr \in Addresses}
Older(age, limit) == IF age < limit THEN age + 1 ELSE age

\* Where those begin that are younger than the limit.
FirstYounger(ages, limit) ==
  CHOOSE first \in 1 .. Len(ages) + 1 :
    /\ \A i \in 1 .. first - 1 : ages[i] >= limit
    /\ first <= Len(ages) => ages[first] < limit

YoungerThan(limit, ages) == SubSeq(ages, FirstYounger(ages, limit), Len(ages))

-----------------------------------------------------------------------------
(* TokenValidator *)

IsExpired(c) == token_age[c] > ExpireDuration

\* cleanup(), and the eviction of the oldest entries there are too many of.
AgesOf(entries) == [i \in 1 .. Len(entries) |-> entries[i].age]
Fresh(entries) ==
  SubSeq(entries, FirstYounger(AgesOf(entries), TokenLifetime), Len(entries))
WithoutNewest(entries) == SubSeq(entries, 1, MaxTrackedTokens)
WithoutOldest(entries) ==
  SubSeq(entries, Len(entries) - MaxTrackedTokens + 1, Len(entries))

TooMany(entries) == Len(entries) > MaxTrackedTokens
Tracked(entries) ==
  IF TooMany(entries)
  THEN IF TooMany(Fresh(entries)) THEN WithoutOldest(Fresh(entries)) ELSE Fresh(entries)
  ELSE entries

Validate(c) ==
  /\ ~IsExpired(c)
  /\ \A i \in 1 .. Len(used_tokens) : used_tokens[i].client # c
  /\ used_tokens' = Tracked(Append(used_tokens, [client |-> c, age |-> 0]))
  /\ since_accepted' = [since_accepted EXCEPT ![c] = 0]
  /\ others' = [d \in Clients |-> IF d = c THEN {} ELSE others[d] \cup {c}]
  /\ replayed' = \/ replayed
                  \/ /\ since_accepted[c] < TokenLifetime
                     /\ Cardinality(others[c]) < MaxTrackedTokens
  /\ UNCHANGED token_age

Issue(c) ==
  /\ token_age' = [token_age EXCEPT ![c] = 0]
  /\ since_accepted' = [since_accepted EXCEPT ![c] = TokenLifetime]
  /\ UNCHANGED <<used_tokens, others, replayed>>

TokensTick ==
  /\ token_age' = [c \in Clients |-> Older(token_age[c], ExpireDuration + 1)]
  /\ used_tokens' = [i \in 1 .. Len(used_tokens) |->
                       [used_tokens[i] EXCEPT !.age = Older(@, TokenLifetime)]]
  /\ since_accepted' = [c \in Clients |-> Older(since_accepted[c], TokenLifetime)]
  /\ UNCHANGED <<others, replayed>>

TokensInit ==
  /\ token_age = [c \in Clients |-> 0]
  /\ used_tokens = <<>>
  /\ since_accepted = [c \in Clients |-> TokenLifetime]
  /\ others = [c \in Clients |-> {}]
  /\ replayed = FALSE

TokensNext ==
  \/ \E c \in Clients : Validate(c) \/ Issue(c)
  \/ TokensTick

-----------------------------------------------------------------------------
(* ConnectionRateLimiter *)

RetainedBriefly(timestamps) == YoungerThan(Window - 1, timestamps)
Retained(timestamps) == YoungerThan(Window, timestamps)

Allow(addr) ==
  LET ip == addr.ip
      timestamps == Retained(requests[ip])
  IN  IF Len(timestamps) >= MaxRequests
      THEN /\ requests' = [requests EXCEPT ![ip] = timestamps]
           /\ UNCHANGED granted
      ELSE /\ requests' = [requests EXCEPT ![ip] = Append(timestamps, 0)]
           /\ granted' = [granted EXCEPT ![ip] = Append(@, 0)]

CleanupRequests ==
  /\ requests' = [ip \in IPs |-> Retained(requests[ip])]
  /\ UNCHANGED granted

\* What is as old as the window stays until it is cleaned up; the history forgets it.
Aged(timestamps) == [i \in 1 .. Len(timestamps) |-> Older(timestamps[i], Window)]

LimiterTick ==
  /\ requests' = [ip \in IPs |-> Aged(requests[ip])]
  /\ granted' = [ip \in IPs |-> YoungerThan(Window, Aged(granted[ip]))]

LimiterInit ==
  /\ requests = [ip \in IPs |-> <<>>]
  /\ granted = [ip \in IPs |-> <<>>]

LimiterNext ==
  \/ \E addr \in Addresses : Allow(addr)
  \/ CleanupRequests
  \/ LimiterTick

-----------------------------------------------------------------------------
(* Properties *)

SecurityTypeOK ==
  /\ token_age \in [Clients -> 0 .. (ExpireDuration + 1)]
  /\ Len(used_tokens) <= MaxTrackedTokens
  /\ used_tokens \in Seq([client : Clients, age : 0 .. TokenLifetime])
  /\ since_accepted \in [Clients -> 0 .. TokenLifetime]
  /\ others \in [Clients -> SUBSET Clients]
  /\ replayed \in BOOLEAN
  /\ requests \in [IPs -> Seq(0 .. Window)]
  /\ granted \in [IPs -> Seq(0 .. Window - 1)]
  /\ \A ip \in IPs : Len(requests[ip]) <= MaxRequests

\* A token is accepted again only once the lifetime of its entry has passed or the
\* tokens of at least MaxTrackedTokens other clients were accepted since: no clean-up
\* and no eviction for the sake of another token opens the way for it earlier. That a
\* token has expired by the time its entry is dropped is nowhere required: the two
\* durations are given to ConnectToken::new and to TokenValidator::new separately.
TokenAcceptedOnce == ~replayed

\* Within any stretch of time as long as the window, an address from any of its
\* ports is allowed at most MaxRequests requests, however requests and clean-ups
\* alternate.
AllowedWithinRate ==
  \A ip \in IPs : Len(granted[ip]) <= MaxRequests
=============================================================================
