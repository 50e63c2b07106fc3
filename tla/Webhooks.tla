------------------------------ MODULE Webhooks -------------------------------
(***************************************************************************)
(* The public webhook of a flow: WebhookRateLimitGuard counts requests in  *)
(* Redis, in windows that end when the counter expires; WebhookService     *)
(* then looks up the webhook, checks the signature and launches a run.     *)
(***************************************************************************)
EXTENDS Naturals

CONSTANTS
  HookCalls,         \* requests that may be in progress
  MaxPerWindow,  \* requests a window admits
  MaxHits        \* bound of the counter; it stays there

ASSUME WebhookAssumption == {MaxPerWindow, MaxHits} \subseteq Nat /\ MaxPerWindow < MaxHits

VARIABLES
  hits,      \* the counter rl:hook:<token>, 0 when the key does not exist
  expiring,  \* the key has an expiry
  webhook,   \* the webhook's row: absent, enabled or disabled
  signed,    \* the webhook has an HMAC secret
  callStep,  \* next step of each request
  counted,   \* the count the request got
  unlimited  \* a counter was left without expiry, a history

hookVars == <<hits, expiring, webhook, signed, callStep, counted, unlimited>>

WebhookTypeOK ==
  /\ hits \in 0 .. MaxHits /\ expiring \in BOOLEAN
  /\ webhook \in {"absent", "enabled", "disabled"} /\ signed \in BOOLEAN
  /\ callStep \in [HookCalls -> {"idle", "incr", "expire", "check", "find", "launch"}]
  /\ counted \in [HookCalls -> 0 .. MaxHits]
  /\ unlimited \in BOOLEAN

WebhookInit ==
  /\ hits = 0 /\ expiring = FALSE
  /\ webhook = "absent" /\ signed = FALSE
  /\ callStep = [c \in HookCalls |-> "idle"]
  /\ counted = [c \in HookCalls |-> 0]
  /\ unlimited = FALSE

GoTo(c, s) == callStep' = [callStep EXCEPT ![c] = s]

-----------------------------------------------------------------------------
(* Management *)

CreateWebhook ==
  /\ webhook = "absent"
  /\ webhook' = "enabled" /\ signed' \in BOOLEAN
  /\ UNCHANGED <<hits, expiring, callStep, counted, unlimited>>

\* The token of a removed webhook stays unknown.
RemoveWebhook ==
  /\ webhook = "enabled"
  /\ webhook' = "disabled"
  /\ UNCHANGED <<hits, expiring, signed, callStep, counted, unlimited>>

-----------------------------------------------------------------------------
(* WebhookRateLimitGuard.canActivate *)

Arrive(c) ==
  /\ callStep[c] = "idle" /\ webhook # "absent"
  /\ GoTo(c, "incr")
  /\ UNCHANGED <<hits, expiring, webhook, signed, counted, unlimited>>

NextHit == IF hits < MaxHits THEN hits + 1 ELSE hits

\* Mutant: the expiry is set by the first request that is refused.
IncrLate(c) ==
  /\ callStep[c] = "incr"
  /\ hits' = NextHit
  /\ counted' = [counted EXCEPT ![c] = NextHit]
  /\ GoTo(c, IF hits = MaxPerWindow + 1 THEN "expire" ELSE "check")
  /\ UNCHANGED <<expiring, webhook, signed, unlimited>>

Incr(c) ==
  /\ callStep[c] = "incr"
  /\ hits' = NextHit
  /\ counted' = [counted EXCEPT ![c] = NextHit]
  /\ GoTo(c, IF hits = 0 THEN "expire" ELSE "check")
  /\ UNCHANGED <<expiring, webhook, signed, unlimited>>

\* The expiry of a key that is gone has no effect.
SetExpiry(c) ==
  /\ callStep[c] = "expire"
  /\ expiring' = (hits > 0)
  /\ GoTo(c, "check")
  /\ UNCHANGED <<hits, webhook, signed, counted, unlimited>>

\* Too many requests, or on to the service.
Check(c) ==
  /\ callStep[c] = "check"
  /\ GoTo(c, IF counted[c] > MaxPerWindow THEN "idle" ELSE "find")
  /\ UNCHANGED <<hits, expiring, webhook, signed, counted, unlimited>>

\* A failing Redis call lets the request pass.
RedisFails(c) ==
  /\ callStep[c] \in {"incr", "expire"}
  /\ unlimited' = (unlimited \/ callStep[c] = "expire")
  /\ GoTo(c, "find")
  /\ UNCHANGED <<hits, expiring, webhook, signed, counted>>

CallDies(c) ==
  /\ callStep[c] # "idle"
  /\ unlimited' = (unlimited \/ callStep[c] = "expire")
  /\ GoTo(c, "idle")
  /\ UNCHANGED <<hits, expiring, webhook, signed, counted>>

\* Redis drops the key: the next window begins.
WindowEnds ==
  /\ expiring
  /\ hits' = 0 /\ expiring' = FALSE
  /\ UNCHANGED <<webhook, signed, callStep, counted, unlimited>>

-----------------------------------------------------------------------------
(* WebhookService.trigger *)

\* An unknown token or a bad signature is refused.
FindWebhook(c, goodSignature) ==
  /\ callStep[c] = "find"
  /\ GoTo(c, IF webhook = "enabled" /\ (signed => goodSignature) THEN "launch" ELSE "idle")
  /\ UNCHANGED <<hits, expiring, webhook, signed, counted, unlimited>>

LaunchWebhook(c) ==
  /\ callStep[c] = "launch"
  /\ GoTo(c, "idle")
  /\ UNCHANGED <<hits, expiring, webhook, signed, counted, unlimited>>

CallStep(c) ==
  \/ Incr(c) \/ SetExpiry(c) \/ Check(c) \/ LaunchWebhook(c)
  \/ \E good \in BOOLEAN : FindWebhook(c, good)

WebhookNext ==
  \/ CreateWebhook \/ RemoveWebhook \/ WindowEnds
  \/ \E c \in HookCalls : Arrive(c) \/ CallStep(c) \/ RedisFails(c) \/ CallDies(c)

WebhookSpec == WebhookInit /\ [][WebhookNext]_hookVars

\* Requests are carried through and Redis expires keys.
WebhookFairness == WF_hookVars(WindowEnds) /\ \A c \in HookCalls : WF_hookVars(CallStep(c))
-----------------------------------------------------------------------------
(* Properties *)

\* A token whose requests are refused is admitted again when the window ends,
\* unless the expiry was lost between the two Redis calls: by a crash, which
\* leaves the counter without one for good, or by an error of the second call.
TokenUnblocked == hits > MaxPerWindow ~> hits = 0 \/ unlimited
=============================================================================
