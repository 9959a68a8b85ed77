------------------------------ MODULE Gateway ------------------------------
(***************************************************************************)
(* Which endpoint, key and parameters a job runs with: the settings an     *)
(* administrator edits (api/admin_settings.py, services/settings_store.py),*)
(* the personal gateway with its rules for single models and its separate  *)
(* billing (services/gateway.py), the model configurations                 *)
(* (api/model_configs.py), and what the worker makes of them when a run    *)
(* starts (worker/runner.py, services/inference.py).                       *)
(*                                                                         *)
(* A stored secret remembers what it was entered for and under which       *)
(* SECRET_KEY it was encrypted; under another one it cannot be read.       *)
(***************************************************************************)
EXTENDS Naturals, Sequences, FiniteSets

CONSTANTS
    MaxEvents,      \* bound: edits, restarts and choices made
    MaxFields       \* bound: parameters that one request is about

ASSUME GatewayAssumption == MaxEvents \in Nat /\ MaxFields \in Nat

VARIABLES
    settings,   \* the "runtime" row
    era,        \* the SECRET_KEY the processes run with
    own,        \* the user's saved token (users.llm_token_encrypted)
    model,      \* a row of model_configs
    edit,       \* the update_settings handlers of two administrators
    job,        \* what a job was submitted for
    run,        \* the configuration its run was given
    call,       \* the request of a dry run
    lastTyped,  \* history: the key last typed for a rule, none if cleared
    raced,      \* history: two edits of the rules overlapped
    events      \* bound

vars == <<settings, era, own, model, edit, job, run, call, lastTyped, raced, events>>

(* {**g, **f}: the entries of f, and those of g that f lacks. *)
Over(f, g) == [k \in DOMAIN f \cup DOMAIN g |-> IF k \in DOMAIN f THEN f[k] ELSE g[k]]

Admins == {"alice", "bob"}
Happens == events < MaxEvents /\ events' = events + 1

NoSecret == [of |-> "nothing", era |-> 0]
Encrypted(of) == [of |-> of, era |-> era]
(* decrypt_secret: the empty string stands for what is missing too. *)
Decrypted(secret) == IF secret # NoSecret /\ secret.era = era THEN secret.of ELSE ""

Toggles == {"enabled", "billing", "passthrough", "only_matched", "billing_passthrough"}
Urls == {"base", "billing_url"}
(* One rule matches the model "matched", the other one nothing that runs. *)
Rule(id, matches) ==
    [id |-> id, matches |-> matches, override |-> FALSE, base |-> FALSE, passthrough |-> FALSE, key |-> NoSecret]
RuleIds == {"rule1", "rule2"}
NoEdit == [pc |-> "idle"]
NoJob == "none"
NoRun == [state |-> "none"]
NoCall == [sent |-> FALSE]

DEFAULTS ==
    Over([key |-> NoSecret, billing_token |-> NoSecret, rules |-> <<>>], [t \in Toggles \cup Urls |-> FALSE])

KeyOf(id, rules) ==
    IF \E i \in DOMAIN rules : rules[i].id = id
    THEN rules[CHOOSE i \in DOMAIN rules : rules[i].id = id].key ELSE NoSecret

FirstRules == {<<>>} \cup
    {<<rule>> : rule \in [id : {"rule1"}, matches : {TRUE}, override : BOOLEAN, base : BOOLEAN,
                         passthrough : BOOLEAN, key : {NoSecret, [of |-> "rule1", era |-> 1]}]}

(* Nothing is set, or separate billing is, one way or another.  Bound: the *)
(* configurations it starts from; the others are an edit or two away.      *)
Init ==
    /\ \/ settings = DEFAULTS
       \/ \E on \in [{"base", "passthrough", "only_matched"} -> BOOLEAN], rules \in FirstRules,
             key \in {NoSecret, [of |-> "platform", era |-> 1]} :
            settings = Over([key |-> key, billing_token |-> [of |-> "billing", era |-> 1], rules |-> rules],
                            Over(on, Over([t \in {"enabled", "billing", "billing_url"} |-> TRUE], DEFAULTS)))
    /\ era = 1 /\ own = [of |-> "user", era |-> 1]
    /\ model = [state |-> "enabled", key |-> [of |-> "model", era |-> 1]]
    /\ edit = [a \in Admins |-> NoEdit]
    /\ job = NoJob /\ run = NoRun /\ call = NoCall
    /\ lastTyped = [id \in RuleIds |-> KeyOf(id, settings.rules)] /\ raced = FALSE /\ events = 0

-----------------------------------------------------------------------------
(* services/gateway.py, for a model that the rules match or do not. *)

Matching(name, s) == {i \in DOMAIN s.rules : s.rules[i].matches /\ name = "matched"}
(* match_rule: the first one, in order; an override that is not on counts  *)
(* as no rule wherever the result is used.                                 *)
Override(name, s) ==
    LET found == Matching(name, s)
    IN IF found = {} THEN {}
       ELSE LET first == s.rules[CHOOSE i \in found : \A k \in found : i =< k]
            IN IF first.override THEN {first} ELSE {}

InferenceEndpoint(s) ==
    IF s.billing
    THEN [base |-> IF s.base THEN "platform" ELSE "",
          key |-> IF s.passthrough THEN "user" ELSE Decrypted(s.key)]
    ELSE [base |-> "gateway", key |-> "user"]

ResolveRoute(name, s) ==
    LET all == InferenceEndpoint(s)
        Own(rule) ==
            [base |-> IF rule.base THEN rule.id ELSE all.base,
             key |-> CASE rule.passthrough -> "user"
                       [] ~rule.passthrough /\ Decrypted(rule.key) # "" -> Decrypted(rule.key)
                       [] OTHER -> all.key]
    IN IF s.billing /\ Override(name, s) # {}
       THEN Own(CHOOSE rule \in Override(name, s) : TRUE) ELSE all

BillingApplies(name, s) == s.billing /\ (s.only_matched => Override(name, s) # {})

BillingAuth(s) == IF s.billing_passthrough THEN "user" ELSE Decrypted(s.billing_token)
BillingEndpointError(s) == ~s.billing_url \/ BillingAuth(s) = ""

BillingConfigError_NoRule(name, s) ==    \* mutant
    \/ ~s.base
    \/ BillingApplies(name, s) /\ BillingEndpointError(s)
BillingConfigError(name, s) ==
    LET route == ResolveRoute(name, s)
        stored == s.key # NoSecret \/ \E rule \in Override(name, s) : rule.key # NoSecret
    IN \/ route.base = ""
       \/ stored /\ route.key = ""
       \/ BillingApplies(name, s) /\ BillingEndpointError(s)

UsesKeyPassthrough_Stored(name, s) ==    \* mutant
    /\ s.billing
    /\ \/ \E rule \in Override(name, s) : rule.passthrough
       \/ s.passthrough /\ \A rule \in Override(name, s) : rule.key = NoSecret
UsesKeyPassthrough(name, s) ==
    /\ s.billing
    /\ \/ \E rule \in Override(name, s) : rule.passthrough
       \/ s.passthrough /\ \A rule \in Override(name, s) : Decrypted(rule.key) = ""

-----------------------------------------------------------------------------
(* Settings are edited in a page, which sends what was changed; a rule's   *)
(* key only if a new one was typed ("" clears it).                         *)

MergeRuleSecrets_ByPlace(sent, old) == [i \in DOMAIN sent |->    \* mutant
    [sent[i].rule EXCEPT !.key =
        CASE sent[i].typed = "new" -> Encrypted(sent[i].rule.id)
          [] sent[i].typed = "" -> NoSecret
          [] OTHER -> IF i \in DOMAIN old THEN old[i].key ELSE NoSecret]]
MergeRuleSecrets(sent, old) == [i \in DOMAIN sent |->
    [sent[i].rule EXCEPT !.key =
        CASE sent[i].typed = "new" -> Encrypted(sent[i].rule.id)
          [] sent[i].typed = "" -> NoSecret
          [] OTHER -> KeyOf(sent[i].rule.id, old)]]

Sent(rule, typed) == [rule |-> rule, typed |-> typed]
(* The rules of the page: kept, with a key typed or cleared, switched,     *)
(* dropped, or one more, in front or behind.                               *)
RulePages(rules) ==
    LET same == [i \in DOMAIN rules |-> Sent(rules[i], "none")]
        more == Sent(Rule("rule2", TRUE), "none")
    IN {[same EXCEPT ![i].typed = "new"] : i \in DOMAIN rules}
       \cup {[same EXCEPT ![i].typed = ""] : i \in DOMAIN rules}
       \cup {[same EXCEPT ![i].rule.override = ~@] : i \in DOMAIN rules}
       \cup {<<>>}
       \cup IF Len(rules) = 1 THEN {<<more>> \o same, same \o <<more>>} ELSE {}

Changed(s, change) ==
    CASE change.field = "rules" -> [s EXCEPT !.rules = MergeRuleSecrets(change.value, s.rules)]
      [] change.field \in {"key", "billing_token"} ->
            [s EXCEPT ![change.field] = IF change.value = "" THEN NoSecret ELSE Encrypted(change.value)]
      [] OTHER -> [s EXCEPT ![change.field] = change.value]

Changes ==
    {[field |-> t, value |-> ~settings[t]] : t \in Toggles \cup Urls}
    \cup {[field |-> "key", value |-> v] : v \in {"", "platform"}}
    \cup {[field |-> "billing_token", value |-> v] : v \in {"", "billing"}}
    \cup {[field |-> "rules", value |-> page] : page \in RulePages(settings.rules)}

(* update_settings reads the row, the old rules in it ... *)
ReadSettings(a) ==
    /\ edit[a] = NoEdit /\ Happens
    /\ \E change \in Changes :
        edit' = [edit EXCEPT ![a] = [pc |-> "write", change |-> change, old |-> settings]]
    /\ UNCHANGED <<settings, era, own, model, job, run, call, lastTyped, raced>>

Typed(page) == [id \in RuleIds |->
    CASE \E i \in DOMAIN page : page[i].rule.id = id /\ page[i].typed = "new" -> Encrypted(id)
      [] \E i \in DOMAIN page : page[i].rule.id = id /\ page[i].typed = "none" -> lastTyped[id]
      [] OTHER -> NoSecret]

(* ... and writes it back as a whole. *)
WriteRuntime(a) ==
    /\ edit[a].pc = "write"
    /\ settings' = Changed(edit[a].old, edit[a].change)
    /\ lastTyped' = IF edit[a].change.field = "rules" THEN Typed(edit[a].change.value) ELSE lastTyped
    /\ raced' = (raced \/ edit[a].old.rules # settings.rules)
    /\ edit' = [edit EXCEPT ![a] = NoEdit]
    /\ UNCHANGED <<era, own, model, job, run, call, events>>

-----------------------------------------------------------------------------
(* Users, model configurations and the SECRET_KEY. *)

SaveToken ==
    /\ settings.enabled /\ ~(settings.billing /\ BillingEndpointError(settings))
    /\ own # Encrypted("user") /\ own' = Encrypted("user")
    /\ UNCHANGED <<settings, era, model, edit, job, run, call, lastTyped, raced, events>>
ClearToken ==
    /\ own # NoSecret /\ Happens /\ own' = NoSecret
    /\ UNCHANGED <<settings, era, model, edit, job, run, call, lastTyped, raced>>

(* admin_update_model, admin_delete_model *)
EditModel ==
    /\ model.state # "deleted" /\ Happens
    /\ \/ model' = [model EXCEPT !.state = IF @ = "enabled" THEN "disabled" ELSE "enabled"]
       \/ model' = [model EXCEPT !.state = "deleted"]
       \/ model' = [model EXCEPT !.key = NoSecret]
       \/ model' = [model EXCEPT !.key = Encrypted("model")]
    /\ UNCHANGED <<settings, era, own, edit, job, run, call, lastTyped, raced>>

(* The processes start again, with another SECRET_KEY. *)
Rekey ==
    /\ Happens /\ era' = era + 1
    /\ edit' = [a \in Admins |-> NoEdit]
    /\ UNCHANGED <<settings, own, model, job, run, call, lastTyped, raced>>

-----------------------------------------------------------------------------
(* A job is submitted for a model and run with what it finds then. *)

(* _resolve_personal_model; the gateway lists the model for this token. *)
SubmitPersonal(name) ==
    /\ job = NoJob /\ settings.enabled /\ Decrypted(own) # ""
    /\ settings.billing => ~BillingEndpointError(settings) /\ ~BillingConfigError(name, settings)
    /\ job' = name
    /\ UNCHANGED <<settings, era, own, model, edit, run, call, lastTyped, raced, events>>
(* _resolve_shared_model *)
SubmitShared ==
    /\ job = NoJob /\ model.state = "enabled"
    /\ job' = "shared"
    /\ UNCHANGED <<settings, era, own, model, edit, run, call, lastTyped, raced, events>>

Personal(name) ==
    LET route == ResolveRoute(name, settings)
    IN IF \/ Decrypted(own) = "" \/ ~settings.enabled
          \/ settings.billing /\ BillingConfigError(name, settings)
       THEN [state |-> "failed"]
       ELSE [state |-> "ready", base |-> route.base, key |-> route.key,
             marked |-> UsesKeyPassthrough(name, settings), billed |-> BillingApplies(name, settings),
             auth |-> IF settings.billing_url THEN BillingAuth(settings) ELSE "",
             with |-> settings]
Shared ==
    IF model.state # "enabled" \/ (model.key # NoSecret /\ Decrypted(model.key) = "")
    THEN [state |-> "failed"] ELSE [state |-> "shared", key |-> Decrypted(model.key)]

Load ==
    /\ job # NoJob /\ run = NoRun
    /\ run' = IF job = "shared" THEN Shared ELSE Personal(job)
    /\ UNCHANGED <<settings, era, own, model, edit, job, call, lastTyped, raced, events>>

-----------------------------------------------------------------------------
(* The parameters of a request: the model's defaults, what the user asked  *)
(* for, what the model forces, and the fields the line wrote itself.       *)

_PROTECTED_BODY_KEYS == {"model", "stream_options"}
Limited == {"max_tokens", "max_completion_tokens"}
Fields == {"temperature"} \cup Limited \cup _PROTECTED_BODY_KEYS

(* Whose value a field has shows in the value: 1 the model's default, 2    *)
(* the user's, 3 the forced one, 4 the line's, 5 the reasoning payload's,  *)
(* 0 that of the payload for no reasoning, 6 one of the user's that is not *)
(* an integer, which the cap passes over, 7 the platform's own.            *)
Given(v, fields) == {[k \in keys |-> v] : keys \in SUBSET fields}
Fraction == 6

Only(f, keys) == [k \in DOMAIN f \cap keys |-> f[k]]
Capped(f, cap) ==
    [k \in DOMAIN f |-> IF k \in Limited /\ cap > 0 /\ f[k] # Fraction /\ f[k] > cap THEN cap ELSE f[k]]
ReasoningPayload(mc, asked) ==
    IF mc.mode = "forced" \/ (mc.mode = "optional" /\ asked) THEN mc.payload ELSE mc.off_payload

(* What a user may set: the whole list if it is empty, never what is       *)
(* protected, the temperature only of a model that has one.                *)
Allowed(mc) ==
    (IF mc.allowed = {} THEN Fields ELSE mc.allowed)
        \ (_PROTECTED_BODY_KEYS \cup IF mc.supports_temperature THEN {} ELSE {"temperature"})

ResolveParams_ForcedFirst(mc, user, asked) ==    \* mutant
    Over(ReasoningPayload(mc, asked),
         Capped(Over(Only(user, Allowed(mc)), Over(mc.forced, mc.defaults)), mc.cap))
(* The payload comes after the cap, and is not cut by it. *)
ResolveParams(mc, user, asked) ==
    Over(ReasoningPayload(mc, asked),
         Capped(Over(mc.forced, Over(Only(user, Allowed(mc)), mc.defaults)), mc.cap))

BuildRequestBody(mc, item, resolved) ==
    Over([k \in {"model"} |-> 7],
         Over(Only(resolved, DOMAIN mc.forced),
              Over(Only(item, Fields \ _PROTECTED_BODY_KEYS), resolved)))

Models(fields) ==
    [defaults : Given(1, fields), forced : Given(3, fields), allowed : SUBSET Fields, cap : {0, 1},
     supports_temperature : BOOLEAN, mode : {"off", "optional", "forced"},
     payload : Given(5, fields), off_payload : Given(0, fields)]

(* dry_run; settings play no part in it.  Bound: only before they change.  *)
(* The fields are merged one by one, and only the list of those allowed    *)
(* makes one of them depend on another.                                    *)
DryRun ==
    /\ settings = DEFAULTS /\ events = 0 /\ job = NoJob /\ ~call.sent
    /\ \E fields \in SUBSET Fields :
        /\ Cardinality(fields) =< MaxFields
        /\ \E mc \in Models(fields), item \in Given(4, fields), asked \in BOOLEAN,
              user \in Given(2, fields) \cup Given(Fraction, fields) :
            call' = [sent |-> TRUE, mc |-> mc, asked |-> asked,
                     body |-> BuildRequestBody(mc, item, ResolveParams(mc, user, asked))]
    /\ UNCHANGED <<settings, era, own, model, edit, job, run, lastTyped, raced, events>>
Answered ==
    /\ call.sent /\ call' = NoCall
    /\ UNCHANGED <<settings, era, own, model, edit, job, run, lastTyped, raced, events>>

-----------------------------------------------------------------------------
Next ==
    /\ call.sent => Answered
    /\ \/ \E a \in Admins : ReadSettings(a) \/ WriteRuntime(a)
       \/ SaveToken \/ ClearToken \/ EditModel \/ Rekey
       \/ \E name \in {"matched", "other"} : SubmitPersonal(name)
       \/ SubmitShared \/ Load \/ DryRun \/ Answered
Spec == Init /\ [][Next]_vars

-----------------------------------------------------------------------------
Separate == run.state = "ready" /\ run.with.billing

(* 与 resolve_route 的取 Key 逻辑一致 (services/gateway.py:398): with      *)
(* separate billing, the requests of a run carry the batch mark if and     *)
(* only if they carry the user's key, whichever rule, fall-back or         *)
(* unreadable secret decided it.                                           *)
MarkedIffPassedOn == Separate => (run.marked <=> run.key = "user")

(* A run starts only if it can call: it has an endpoint, no key only where *)
(* none is configured (:185), and what charging needs if it is charged;    *)
(* and on the platform's key the user is charged, unless only the models   *)
(* with a rule of their own are (services/gateway.py:158-163).             *)
CanCall == Separate =>
    /\ run.base # ""
    /\ run.with.key # NoSecret => run.key # ""
    /\ run.billed => run.auth # ""
PaidFor == run.state = "ready" => run.key = "user" \/ run.billed \/ run.with.only_matched
RunIsSound == CanCall /\ PaidFor

(* 按规则 id 找回已存的密文 (api/admin_settings.py:73): a rule has the key *)
(* last typed for it and no other rule's, however the rules are reordered, *)
(* dropped and added, unless two edits of the rules overlapped.            *)
RuleKeysKept == ~raced =>
    \A i \in DOMAIN settings.rules : settings.rules[i].key = lastTyped[settings.rules[i].id]

(* What a request is sent with, whatever its model, user and line say, but *)
(* for the fields of the model's own reasoning payload, which comes last:  *)
(* what the model forces (强制参数：始终覆盖用户传入值, models.py:200), cut *)
(* to the cap; ...                                                         *)
FromPayload == DOMAIN ReasoningPayload(call.mc, call.asked)
ForcedWins ==
    \A k \in DOMAIN call.mc.forced \ (FromPayload \cup {"model"}) :
        call.body[k] = Capped(call.mc.forced, call.mc.cap)[k]
(* ... no parameter of the user's that the model does not allow, and no    *)
(* protected one of the user's or the line's; ...                          *)
UsersKept ==
    /\ call.body.model = 7
    /\ \A k \in DOMAIN call.body :
        /\ call.body[k] \in {2, Fraction} => k \in Allowed(call.mc)
        /\ call.body[k] = 4 => k \notin _PROTECTED_BODY_KEYS
(* ... and no more tokens than max_tokens_cap (单条请求的最大 tokens 上限, *)
(* models.py:231).  The payload goes past that limit, and so do a limit    *)
(* the line wrote and one of the user's that is not an integer.            *)
LimitsKept ==
    \A k \in (DOMAIN call.body \cap Limited) \ FromPayload :
        call.mc.cap > 0 => call.body[k] =< call.mc.cap \/ call.body[k] \in {4, Fraction}
ParamsObeyed == call.sent => ForcedWins /\ UsersKept /\ LimitsKept
=============================================================================
