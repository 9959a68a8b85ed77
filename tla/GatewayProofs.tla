---------------------------- MODULE GatewayProofs ----------------------------
(***************************************************************************)
(* Proofs about Gateway: what a run is given fits together, and the rules  *)
(* keep their keys, for any number of edits, restarts and choices; the     *)
(* parameters of a request are those allowed, whatever was asked for.      *)
(***************************************************************************)
EXTENDS Gateway, SequenceTheorems, TLAPS

Names == Toggles \cup Urls \cup {"key", "billing_token", "rules"}
Secrets(owners) == [of : owners \cup {"nothing"}, era : Nat]
RuleType == [id : RuleIds, matches : BOOLEAN, override : BOOLEAN, base : BOOLEAN, passthrough : BOOLEAN,
             key : Secrets(RuleIds)]
SentType == [rule : RuleType, typed : {"none", "new", ""}]

(* Rules have names of their own; the first one is there if any is. *)
RulesOK(rules) ==
    /\ rules \in Seq(RuleType)
    /\ \A i, k \in DOMAIN rules : rules[i].id = rules[k].id => i = k
    /\ Len(rules) = 1 => rules[1].id = "rule1"
PageOK(page) ==
    /\ page \in Seq(SentType)
    /\ \A i, k \in DOMAIN page : page[i].rule.id = page[k].rule.id => i = k
    /\ Len(page) = 1 => page[1].rule.id = "rule1"

SettingsOK(s) ==
    /\ s = [f \in Names |-> s[f]]
    /\ s.key \in Secrets({"platform", "billing"})
    /\ RulesOK(s.rules)
ChangeOK(c) ==
    \/ c.field = "rules" /\ PageOK(c.value)
    \/ c.field \in {"key", "billing_token"} /\ c.value \in {"", "platform", "billing"}
    \/ c.field \in Toggles \cup Urls
EditOK(e) == e = NoEdit \/ (e.pc = "write" /\ SettingsOK(e.old) /\ ChangeOK(e.change))

Inv ==
    /\ SettingsOK(settings) /\ era \in Nat
    /\ edit = [a \in Admins |-> edit[a]] /\ \A a \in Admins : EditOK(edit[a])
    /\ ~raced => lastTyped = [id \in RuleIds |-> KeyOf(id, settings.rules)]
    /\ MarkedIffPassedOn /\ RunIsSound

-----------------------------------------------------------------------------
LEMMA DefaultsOK == SettingsOK(DEFAULTS)
<1>1. /\ DEFAULTS = [f \in Names |-> DEFAULTS[f]]
      /\ DEFAULTS.key = NoSecret /\ DEFAULTS.rules = <<>>
    BY DEF DEFAULTS, Over, Names
<1>2. NoSecret \in Secrets({"platform", "billing"})
    BY DEF NoSecret, Secrets
<1>3. RulesOK(<<>>)
    BY DEF RulesOK
<1>. QED BY <1>1, <1>2, <1>3 DEF SettingsOK

(* What a rule is made of. *)
LEMMA RuleFields ==
    ASSUME NEW rules, RulesOK(rules), NEW i \in DOMAIN rules
    PROVE  /\ rules[i] \in RuleType
           /\ rules[i].id \in RuleIds /\ rules[i].key \in Secrets(RuleIds)
<1>1. rules[i] \in RuleType
    BY DEF RulesOK
<1>. QED BY <1>1 DEF RuleType

LEMMA FirstRulesOK == \A rules \in FirstRules : RulesOK(rules)
<1>1. RulesOK(<<>>)
    BY DEF RulesOK
<1>2. ASSUME NEW rule \in [id : {"rule1"}, matches : {TRUE}, override : BOOLEAN, base : BOOLEAN,
                           passthrough : BOOLEAN, key : {NoSecret, [of |-> "rule1", era |-> 1]}]
      PROVE  RulesOK(<<rule>>)
  <2>1. rule.key \in Secrets(RuleIds) /\ rule.id = "rule1"
      BY DEF NoSecret, Secrets, RuleIds
  <2>2. rule \in RuleType
      BY <2>1 DEF RuleType, RuleIds
  <2>. QED BY <2>1, <2>2 DEF RulesOK
<1>. QED BY <1>1, <1>2 DEF FirstRules

LEMMA InvAtStart == Init => Inv
<1>. SUFFICES ASSUME Init PROVE Inv
    OBVIOUS
<1>1. SettingsOK(settings)
  <2>1. CASE settings = DEFAULTS
      BY <2>1, DefaultsOK
  <2>2. ASSUME NEW on \in [{"base", "passthrough", "only_matched"} -> BOOLEAN], NEW rules \in FirstRules,
               NEW key \in {NoSecret, [of |-> "platform", era |-> 1]},
               settings = Over([key |-> key, billing_token |-> [of |-> "billing", era |-> 1], rules |-> rules],
                               Over(on, Over([t \in {"enabled", "billing", "billing_url"} |-> TRUE], DEFAULTS)))
        PROVE  SettingsOK(settings)
    <3>1. DOMAIN DEFAULTS = Names
        BY DEF DEFAULTS, Over, Names
    <3>2. settings.key = key /\ settings.rules = rules /\ settings = [f \in Names |-> settings[f]]
        BY <2>2, <3>1 DEF Over, Names, Toggles, Urls
    <3>3. key \in Secrets({"platform", "billing"})
        BY DEF NoSecret, Secrets
    <3>. QED BY <3>2, <3>3, FirstRulesOK DEF SettingsOK
  <2>. QED BY <2>1, <2>2 DEF Init
<1>2. edit = [a \in Admins |-> edit[a]] /\ \A a \in Admins : EditOK(edit[a])
    BY DEF Init, EditOK
<1>3. MarkedIffPassedOn /\ RunIsSound
    BY DEF Init, NoRun, MarkedIffPassedOn, RunIsSound, CanCall, PaidFor, Separate
<1>. QED BY <1>1, <1>2, <1>3 DEF Init, Inv

-----------------------------------------------------------------------------
(* There are two rules at most, so one of those that match is the first. *)
LEMMA OneIsFirst ==
    ASSUME NEW name, NEW s, RulesOK(s.rules), Matching(name, s) # {}
    PROVE  \E i \in Matching(name, s) : \A k \in Matching(name, s) : i =< k
<1>1. \A i \in DOMAIN s.rules : s.rules[i].id \in {"rule1", "rule2"}
    BY RuleFields DEF RuleIds
<1>2. Len(s.rules) \in Nat /\ DOMAIN s.rules = 1..Len(s.rules)
    BY DEF RulesOK
<1>3. ~(3 =< Len(s.rules))
  <2>. SUFFICES ASSUME 3 =< Len(s.rules) PROVE FALSE
      OBVIOUS
  <2>1. 1 \in DOMAIN s.rules /\ 2 \in DOMAIN s.rules /\ 3 \in DOMAIN s.rules
      BY <1>2
  <2>2. /\ s.rules[1].id # s.rules[2].id /\ s.rules[1].id # s.rules[3].id
        /\ s.rules[2].id # s.rules[3].id
      BY <2>1 DEF RulesOK
  <2>. QED BY <1>1, <2>1, <2>2
<1>4. Matching(name, s) \subseteq {1, 2}
    BY <1>2, <1>3 DEF Matching
<1>. QED BY <1>4

(* services/gateway.py: the mark says whose key the requests carry. *)
LEMMA KeysOfOthers ==
    ASSUME SettingsOK(settings)
    PROVE  /\ Decrypted(settings.key) # "user"
           /\ \A name : \A rule \in Override(name, settings) : Decrypted(rule.key) # "user"
<1>1. ASSUME NEW owners, "user" \notin owners, NEW secret \in Secrets(owners) PROVE Decrypted(secret) # "user"
    BY <1>1 DEF Decrypted, Secrets
<1>2. Decrypted(settings.key) # "user"
    BY <1>1 DEF SettingsOK
<1>3. ASSUME NEW name, NEW rule \in Override(name, settings) PROVE Decrypted(rule.key) # "user"
  <2>. DEFINE found == Matching(name, settings)
              least == CHOOSE i \in found : \A k \in found : i =< k
  <2>0. found # {} /\ rule = settings.rules[least]
      BY DEF Override
  <2>1. least \in found
      BY <2>0, OneIsFirst DEF SettingsOK
  <2>4. least \in DOMAIN settings.rules
      BY <2>1 DEF Matching
  <2>2. rule.key \in Secrets(RuleIds)
      BY <2>0, <2>4, RuleFields DEF SettingsOK
  <2>. QED BY <1>1, <2>2 DEF RuleIds
<1>. QED BY <1>2, <1>3

LEMMA OneOverride == \A name, s : \A r1, r2 \in Override(name, s) : r1 = r2
BY DEF Override

LEMMA MarkMatchesKey ==
    ASSUME SettingsOK(settings), settings.billing, NEW name
    PROVE  UsesKeyPassthrough(name, settings) <=> ResolveRoute(name, settings).key = "user"
<1>. DEFINE s == settings
            all == InferenceEndpoint(s)
<1>1. all.key = IF s.passthrough THEN "user" ELSE Decrypted(s.key)
    BY DEF InferenceEndpoint
<1>2. CASE Override(name, s) = {}
    BY <1>1, <1>2, KeysOfOthers DEF ResolveRoute, UsesKeyPassthrough
<1>3. CASE Override(name, s) # {}
  <2>0. PICK r \in Override(name, s) : TRUE
      BY <1>3
  <2>1. \A other \in Override(name, s) : other = r
      BY OneOverride
  <2>2. (CHOOSE rule \in Override(name, s) : TRUE) = r
      BY <2>1
  <2>3. ResolveRoute(name, s).key =
          CASE r.passthrough -> "user"
            [] ~r.passthrough /\ Decrypted(r.key) # "" -> Decrypted(r.key)
            [] OTHER -> all.key
      BY <1>3, <2>2 DEF ResolveRoute
  <2>4. UsesKeyPassthrough(name, s) <=> r.passthrough \/ (s.passthrough /\ Decrypted(r.key) = "")
      BY <2>1 DEF UsesKeyPassthrough
  <2>5. Decrypted(r.key) # "user" /\ Decrypted(s.key) # "user"
      BY KeysOfOthers
  <2>. HIDE DEF all
  <2>6. CASE r.passthrough
    <3>1. ResolveRoute(name, s).key = "user"
        BY Zenon, <2>3, <2>6
    <3>. QED BY <2>4, <2>6, <3>1
  <2>7. CASE ~r.passthrough /\ Decrypted(r.key) # ""
    <3>1. ResolveRoute(name, s).key = Decrypted(r.key)
        BY Zenon, <2>3, <2>7
    <3>. QED BY <2>4, <2>5, <2>7, <3>1
  <2>8. CASE ~r.passthrough /\ Decrypted(r.key) = ""
    <3>1. ResolveRoute(name, s).key = all.key
        BY Zenon, <2>3, <2>8
    <3>. QED BY <1>1, <2>4, <2>5, <2>8, <3>1
  <2>. QED BY <2>6, <2>7, <2>8
<1>. QED BY <1>2, <1>3

LEMMA LoadStep == ASSUME Inv, Load PROVE (MarkedIffPassedOn /\ RunIsSound)'
<1>. DEFINE s == settings
            route == ResolveRoute(job, s)
<1>1. SettingsOK(s)
    BY DEF Inv
<1>2. \/ run'.state \in {"failed", "shared"}
      \/ /\ s.billing => ~BillingConfigError(job, s)
         /\ run' = [state |-> "ready", base |-> route.base, key |-> route.key,
                    marked |-> UsesKeyPassthrough(job, s), billed |-> BillingApplies(job, s),
                    auth |-> IF s.billing_url THEN BillingAuth(s) ELSE "", with |-> s]
    BY DEF Load, Shared, Personal
<1>3. CASE run'.state \in {"failed", "shared"}
    BY <1>3 DEF MarkedIffPassedOn, RunIsSound, CanCall, PaidFor, Separate
<1>4. CASE /\ s.billing => ~BillingConfigError(job, s)
           /\ run' = [state |-> "ready", base |-> route.base, key |-> route.key,
                      marked |-> UsesKeyPassthrough(job, s), billed |-> BillingApplies(job, s),
                      auth |-> IF s.billing_url THEN BillingAuth(s) ELSE "", with |-> s]
  <2>1. /\ run'.base = route.base /\ run'.key = route.key /\ run'.with = s
        /\ run'.marked <=> UsesKeyPassthrough(job, s)
        /\ run'.billed <=> BillingApplies(job, s)
        /\ run'.auth = IF s.billing_url THEN BillingAuth(s) ELSE ""
      BY <1>4
  <2>2. MarkedIffPassedOn'
      BY <1>1, <2>1, MarkMatchesKey DEF MarkedIffPassedOn, Separate
  <2>3. CanCall'
    <3>1. SUFFICES ASSUME s.billing
                   PROVE  /\ route.base # ""
                          /\ s.key # NoSecret => route.key # ""
                          /\ BillingApplies(job, s) => s.billing_url /\ BillingAuth(s) # ""
        BY <2>1 DEF CanCall, Separate
    <3>. QED BY <1>4, <3>1 DEF BillingConfigError, BillingEndpointError
  <2>4. PaidFor'
    <3>1. ~s.billing => route.key = "user"
        BY DEF ResolveRoute, InferenceEndpoint
    <3>2. s.billing /\ ~s.only_matched => BillingApplies(job, s)
        BY DEF BillingApplies
    <3>. QED BY <2>1, <3>1, <3>2 DEF PaidFor
  <2>. QED BY <2>2, <2>3, <2>4 DEF RunIsSound
<1>. QED BY <1>2, <1>3, <1>4

-----------------------------------------------------------------------------
(* A page with the rules of another one, however else they are edited. *)
LEMMA SameRules ==
    ASSUME NEW rules, RulesOK(rules), NEW page,
           DOMAIN page = DOMAIN rules, page = [k \in DOMAIN rules |-> page[k]],
           \A k \in DOMAIN rules : page[k] \in SentType /\ page[k].rule.id = rules[k].id
    PROVE  PageOK(page)
<1>1. Len(rules) \in Nat /\ DOMAIN rules = 1..Len(rules)
    BY DEF RulesOK
<1>2. page \in [1..Len(rules) -> SentType]
    BY <1>1
<1>3. page \in Seq(SentType) /\ Len(page) = Len(rules)
    BY <1>1, <1>2
<1>. QED BY <1>1, <1>3 DEF PageOK, RulesOK

(* An edit keeps the names of the rules distinct. *)
LEMMA PagesOK == ASSUME NEW rules, RulesOK(rules) PROVE \A page \in RulePages(rules) : PageOK(page)
<1>. DEFINE same == [i \in DOMAIN rules |-> Sent(rules[i], "none")]
            more == Sent(Rule("rule2", TRUE), "none")
<1>1. /\ Len(rules) \in Nat /\ DOMAIN rules = 1..Len(rules)
      /\ same \in Seq(SentType) /\ Len(same) = Len(rules) /\ DOMAIN same = DOMAIN rules
      /\ same = [i \in DOMAIN rules |-> same[i]]
      /\ \A i \in DOMAIN rules : same[i].rule = rules[i] /\ same[i] \in SentType
  <2>1. Len(rules) \in Nat /\ DOMAIN rules = 1..Len(rules)
      BY DEF RulesOK
  <2>2. \A i \in DOMAIN rules : Sent(rules[i], "none") \in SentType
      BY RuleFields DEF Sent, SentType
  <2>3. \A i \in DOMAIN rules : same[i].rule = rules[i]
      BY DEF Sent
  <2>. QED BY <2>1, <2>2, <2>3
<1>. HIDE DEF same
<1>2. more \in SentType /\ more.rule.id = "rule2"
  <2>1. NoSecret \in Secrets(RuleIds)
      BY DEF NoSecret, Secrets
  <2>2. Rule("rule2", TRUE) \in RuleType /\ Rule("rule2", TRUE).id = "rule2"
      BY <2>1 DEF Rule, RuleType, RuleIds
  <2>. HIDE DEF more
  <2>3. more = [rule |-> Rule("rule2", TRUE), typed |-> "none"]
      BY DEF more, Sent
  <2>. QED BY <2>2, <2>3 DEF SentType
<1>. HIDE DEF more
<1>3. ASSUME NEW i \in DOMAIN rules, NEW t \in {"new", ""} PROVE PageOK([same EXCEPT ![i].typed = t])
  <2>. DEFINE e == [same[i] EXCEPT !.typed = t]
              page == [same EXCEPT ![i] = e]
  <2>1. e \in SentType /\ e.rule = rules[i]
      BY <1>1 DEF SentType
  <2>. HIDE DEF e
  <2>2. /\ DOMAIN page = DOMAIN rules /\ page = [k \in DOMAIN rules |-> page[k]]
        /\ \A k \in DOMAIN rules : page[k] \in SentType /\ page[k].rule.id = rules[k].id
      BY <1>1, <2>1
  <2>. HIDE DEF page
  <2>3. PageOK(page)
      BY <2>2, SameRules
  <2>. QED BY <2>3 DEF page, e
<1>4. ASSUME NEW i \in DOMAIN rules PROVE PageOK([same EXCEPT ![i].rule.override = ~@])
  <2>. DEFINE o == [same[i].rule EXCEPT !.override = ~same[i].rule.override]
              e == [same[i] EXCEPT !.rule = o]
              page == [same EXCEPT ![i] = e]
  <2>0. same[i].rule = rules[i] /\ rules[i] \in RuleType
      BY <1>1, RuleFields
  <2>1. o \in RuleType /\ o.id = rules[i].id
      BY <2>0 DEF RuleType
  <2>. HIDE DEF o
  <2>2. e \in SentType /\ e.rule = o
      BY <1>1, <2>1 DEF SentType
  <2>. HIDE DEF e
  <2>3. /\ DOMAIN page = DOMAIN rules /\ page = [k \in DOMAIN rules |-> page[k]]
        /\ \A k \in DOMAIN rules : page[k] \in SentType /\ page[k].rule.id = rules[k].id
      BY <1>1, <2>1, <2>2
  <2>. HIDE DEF page
  <2>4. PageOK(page)
      BY <2>3, SameRules
  <2>. QED BY <2>4 DEF page, e, o
<1>5. PageOK(<<>>)
    BY DEF PageOK
<1>6. ASSUME Len(rules) = 1 PROVE PageOK(<<more>> \o same) /\ PageOK(same \o <<more>>)
  <2>1. same[1].rule.id = "rule1" /\ same[1] \in SentType
      BY <1>1, <1>6 DEF RulesOK
  <2>2. same \in Seq(SentType) /\ Len(same) = 1 /\ <<more>> \in Seq(SentType) /\ Len(<<more>>) = 1 /\ <<more>>[1] = more
      BY <1>1, <1>2, <1>6
  <2>. DEFINE Pair(c, first, second) ==
                /\ c \in Seq(SentType) /\ Len(c) = 2 /\ c[1] = first /\ c[2] = second
  <2>3. ASSUME NEW one \in Seq(SentType), NEW other \in Seq(SentType), Len(one) = 1, Len(other) = 1
        PROVE  Pair(one \o other, one[1], other[1])
    <3>1. /\ one \o other \in Seq(SentType) /\ Len(one \o other) = 2
          /\ \A i \in 1..2 : (one \o other)[i] = IF i =< 1 THEN one[i] ELSE other[i - 1]
      <4>1. /\ one \o other \in Seq(SentType) /\ Len(one \o other) = Len(one) + Len(other)
            /\ \A i \in 1 .. Len(one) + Len(other) : (one \o other)[i] =
                  IF i <= Len(one) THEN one[i] ELSE other[i - Len(one)]
          BY ConcatProperties
      <4>. DEFINE d == one \o other
      <4>. HIDE DEF d
      <4>2. /\ d \in Seq(SentType) /\ Len(d) = 2
            /\ \A i \in 1..2 : d[i] = IF i =< 1 THEN one[i] ELSE other[i - 1]
          BY <2>3, <4>1 DEF d
      <4>. QED BY <4>2 DEF d
    <3>. DEFINE c == one \o other
    <3>. HIDE DEF c
    <3>3. c[1] = one[1] /\ c[2] = other[1] /\ c \in Seq(SentType) /\ Len(c) = 2
        BY <3>1 DEF c
    <3>. QED BY <3>3 DEF c
  <2>4. Pair(<<more>> \o same, more, same[1]) /\ Pair(same \o <<more>>, same[1], more)
      BY <2>2, <2>3
  <2>5. ASSUME NEW c, Pair(c, more, same[1]) \/ Pair(c, same[1], more) PROVE PageOK(c)
    <3>1. DOMAIN c = {1, 2} /\ c \in Seq(SentType) /\ Len(c) = 2 /\ c[1].rule.id # c[2].rule.id
        BY <1>2, <2>1, <2>5
    <3>. QED BY <3>1 DEF PageOK
  <2>. QED BY <2>4, <2>5
<1>. DEFINE Retyped(i, t) == [same EXCEPT ![i].typed = t]
            Switched(i) == [same EXCEPT ![i].rule.override = ~@]
<1>7. RulePages(rules) = {Retyped(i, "new") : i \in DOMAIN rules}
                         \cup {Retyped(i, "") : i \in DOMAIN rules}
                         \cup {Switched(i) : i \in DOMAIN rules}
                         \cup {<<>>}
                         \cup IF Len(rules) = 1 THEN {<<more>> \o same, same \o <<more>>} ELSE {}
    BY DEF RulePages, same, more
<1>8. /\ \A i \in DOMAIN rules, t \in {"new", ""} : PageOK(Retyped(i, t))
      /\ \A i \in DOMAIN rules : PageOK(Switched(i))
    BY <1>3, <1>4
<1>. DEFINE front == <<more>> \o same
            back == same \o <<more>>
<1>. HIDE DEF Retyped, Switched, front, back
<1>9. ASSUME NEW page \in RulePages(rules)
      PROVE  \/ \E i \in DOMAIN rules, t \in {"new", ""} : page = Retyped(i, t)
             \/ \E i \in DOMAIN rules : page = Switched(i)
             \/ page = <<>>
             \/ Len(rules) = 1 /\ page \in {front, back}
    BY <1>7 DEF front, back
<1>10. Len(rules) = 1 => PageOK(front) /\ PageOK(back)
    BY <1>6 DEF front, back
<1>. QED BY <1>5, <1>8, <1>9, <1>10

LEMMA ReadStep == ASSUME Inv, NEW a \in Admins, ReadSettings(a) PROVE Inv'
<1>1. PICK change \in Changes : edit' = [edit EXCEPT ![a] = [pc |-> "write", change |-> change, old |-> settings]]
    BY DEF ReadSettings
<1>2. ChangeOK(change)
  <2>1. ASSUME NEW t \in Toggles \cup Urls, change = [field |-> t, value |-> ~settings[t]] PROVE ChangeOK(change)
      BY <2>1 DEF ChangeOK
  <2>2. ASSUME NEW v \in {"", "platform"}, change = [field |-> "key", value |-> v] PROVE ChangeOK(change)
      BY <2>2 DEF ChangeOK
  <2>3. ASSUME NEW v \in {"", "billing"}, change = [field |-> "billing_token", value |-> v] PROVE ChangeOK(change)
      BY <2>3 DEF ChangeOK
  <2>4. ASSUME NEW page \in RulePages(settings.rules), change = [field |-> "rules", value |-> page]
        PROVE  ChangeOK(change)
    <3>1. PageOK(page)
        BY PagesOK DEF Inv, SettingsOK
    <3>. QED BY <2>4, <3>1 DEF ChangeOK
  <2>. QED BY Zenon, <2>1, <2>2, <2>3, <2>4 DEF Changes
<1>3. EditOK([pc |-> "write", change |-> change, old |-> settings])
    BY <1>2 DEF Inv, EditOK
<1>4. edit' = [b \in Admins |-> edit'[b]] /\ \A b \in Admins : EditOK(edit'[b])
    BY <1>1, <1>3 DEF Inv
<1>5. UNCHANGED <<settings, era, run, lastTyped, raced>>
    BY DEF ReadSettings
<1>. QED BY <1>4, <1>5 DEF Inv, MarkedIffPassedOn, RunIsSound, CanCall, PaidFor, Separate

(* What the merge makes of a page: the same rules, with the keys meant. *)
LEMMA MergeKeeps ==
    ASSUME era \in Nat, NEW page, PageOK(page), NEW old, RulesOK(old)
    PROVE  LET merged == MergeRuleSecrets(page, old)
           IN /\ RulesOK(merged) /\ DOMAIN merged = DOMAIN page
              /\ \A i \in DOMAIN page :
                    /\ merged[i].id = page[i].rule.id
                    /\ page[i].typed = "new" => merged[i].key = Encrypted(page[i].rule.id)
                    /\ page[i].typed = "" => merged[i].key = NoSecret
                    /\ page[i].typed = "none" => merged[i].key = KeyOf(page[i].rule.id, old)
<1>. DEFINE key(i) == CASE page[i].typed = "new" -> Encrypted(page[i].rule.id)
                        [] page[i].typed = "" -> NoSecret
                        [] OTHER -> KeyOf(page[i].rule.id, old)
            one(i) == [page[i].rule EXCEPT !.key = key(i)]
            merged == MergeRuleSecrets(page, old)
<1>1. Len(page) \in Nat /\ DOMAIN page = 1..Len(page) /\ \A i \in DOMAIN page : page[i] \in SentType
    BY DEF PageOK
<1>2. \A i \in DOMAIN page : page[i].rule \in RuleType /\ page[i].typed \in {"none", "new", ""}
    BY <1>1 DEF SentType
<1>3. merged = [i \in DOMAIN page |-> one(i)]
    BY Zenon DEF MergeRuleSecrets
<1>4. ASSUME NEW i \in DOMAIN page
      PROVE  /\ page[i].typed = "new" => key(i) = Encrypted(page[i].rule.id)
             /\ page[i].typed = "" => key(i) = NoSecret
             /\ page[i].typed = "none" => key(i) = KeyOf(page[i].rule.id, old)
    BY Zenon, "new" # "", "new" # "none", "" # "none"
<1>5. ASSUME NEW i \in DOMAIN page PROVE key(i) \in Secrets(RuleIds)
  <2>1. page[i].rule.id \in RuleIds
      BY <1>2 DEF RuleType
  <2>2. Encrypted(page[i].rule.id) \in Secrets(RuleIds) /\ NoSecret \in Secrets(RuleIds)
      BY <2>1 DEF Encrypted, NoSecret, Secrets
  <2>3. KeyOf(page[i].rule.id, old) \in Secrets(RuleIds)
      BY <2>2, RuleFields DEF KeyOf
  <2>. HIDE DEF key
  <2>. QED BY <1>2, <1>4, <2>2, <2>3
<1>. HIDE DEF key
<1>6. ASSUME NEW i \in DOMAIN page PROVE one(i) \in RuleType /\ one(i).id = page[i].rule.id /\ one(i).key = key(i)
    BY <1>2, <1>5 DEF RuleType
<1>. HIDE DEF one
<1>7. /\ merged \in Seq(RuleType) /\ Len(merged) = Len(page) /\ DOMAIN merged = DOMAIN page
      /\ \A i \in DOMAIN page : merged[i].id = page[i].rule.id /\ merged[i].key = key(i)
    BY <1>1, <1>3, <1>6
<1>. HIDE DEF merged
<1>8. RulesOK(merged)
    BY <1>1, <1>7 DEF RulesOK, PageOK
<1>9. \A i \in DOMAIN page :
        /\ page[i].typed = "new" => merged[i].key = Encrypted(page[i].rule.id)
        /\ page[i].typed = "" => merged[i].key = NoSecret
        /\ page[i].typed = "none" => merged[i].key = KeyOf(page[i].rule.id, old)
    BY <1>4, <1>7
<1>. QED BY <1>7, <1>8, <1>9 DEF merged

LEMMA ChangedOK ==
    ASSUME era \in Nat, NEW s, SettingsOK(s), NEW change, ChangeOK(change)
    PROVE  /\ SettingsOK(Changed(s, change))
           /\ Changed(s, change).rules =
                IF change.field = "rules" THEN MergeRuleSecrets(change.value, s.rules) ELSE s.rules
<1>1. CASE change.field = "rules" /\ PageOK(change.value)
  <2>. DEFINE merged == MergeRuleSecrets(change.value, s.rules)
  <2>1. RulesOK(merged)
      BY <1>1, MergeKeeps DEF SettingsOK
  <2>2. Changed(s, change) = [s EXCEPT !.rules = merged]
      BY Zenon, <1>1 DEF Changed
  <2>. HIDE DEF merged
  <2>3. /\ [s EXCEPT !.rules = merged].rules = merged /\ [s EXCEPT !.rules = merged].key = s.key
        /\ [s EXCEPT !.rules = merged] = [f \in Names |-> [s EXCEPT !.rules = merged][f]]
      BY DEF SettingsOK, Names
  <2>4. SettingsOK([s EXCEPT !.rules = merged])
      BY <2>1, <2>3 DEF SettingsOK
  <2>. QED BY <1>1, <2>2, <2>3, <2>4 DEF merged
<1>2. CASE change.field \in {"key", "billing_token"} /\ change.value \in {"", "platform", "billing"}
  <2>. DEFINE secret == IF change.value = "" THEN NoSecret ELSE Encrypted(change.value)
  <2>1. Changed(s, change) = [s EXCEPT ![change.field] = secret]
      BY Zenon, <1>2, "key" # "rules", "billing_token" # "rules" DEF Changed
  <2>2. secret \in Secrets({"platform", "billing"})
      BY <1>2 DEF NoSecret, Encrypted, Secrets
  <2>. HIDE DEF secret
  <2>3. /\ [s EXCEPT ![change.field] = secret].rules = s.rules
        /\ [s EXCEPT ![change.field] = secret].key \in {s.key, secret}
        /\ [s EXCEPT ![change.field] = secret] = [f \in Names |-> [s EXCEPT ![change.field] = secret][f]]
      BY <1>2 DEF SettingsOK, Names
  <2>. QED BY <1>2, <2>1, <2>2, <2>3 DEF SettingsOK
<1>3. CASE change.field \in Toggles \cup Urls
  <2>1. change.field # "rules" /\ change.field \notin {"key", "billing_token"} /\ change.field \in Names
      BY <1>3 DEF Toggles, Urls, Names
  <2>2. Changed(s, change) = [s EXCEPT ![change.field] = change.value]
      BY Zenon, <2>1 DEF Changed
  <2>3. /\ [s EXCEPT ![change.field] = change.value].rules = s.rules
        /\ [s EXCEPT ![change.field] = change.value].key = s.key
        /\ [s EXCEPT ![change.field] = change.value] = [f \in Names |-> [s EXCEPT ![change.field] = change.value][f]]
      BY <2>1 DEF SettingsOK, Names
  <2>. QED BY <2>1, <2>2, <2>3 DEF SettingsOK
<1>. QED BY <1>1, <1>2, <1>3 DEF ChangeOK

(* After an edit of rules that nobody else has changed, each has the key   *)
(* last typed for it.                                                      *)
LEMMA TypedMatchesMerge ==
    ASSUME era \in Nat, NEW page, PageOK(page), NEW old, RulesOK(old),
           lastTyped = [id \in RuleIds |-> KeyOf(id, old)]
    PROVE  Typed(page) = [id \in RuleIds |-> KeyOf(id, MergeRuleSecrets(page, old))]
<1>. DEFINE merged == MergeRuleSecrets(page, old)
            now(id) == CASE \E i \in DOMAIN page : page[i].rule.id = id /\ page[i].typed = "new" -> Encrypted(id)
                         [] \E i \in DOMAIN page : page[i].rule.id = id /\ page[i].typed = "none" -> lastTyped[id]
                         [] OTHER -> NoSecret
<1>1. /\ RulesOK(merged) /\ DOMAIN merged = DOMAIN page
      /\ \A i \in DOMAIN page :
            /\ merged[i].id = page[i].rule.id
            /\ page[i].typed = "new" => merged[i].key = Encrypted(page[i].rule.id)
            /\ page[i].typed = "" => merged[i].key = NoSecret
            /\ page[i].typed = "none" => merged[i].key = KeyOf(page[i].rule.id, old)
    BY MergeKeeps
<1>. HIDE DEF merged
<1>2. ASSUME NEW id \in RuleIds PROVE now(id) = KeyOf(id, merged)
  <2>1. CASE \A i \in DOMAIN page : page[i].rule.id # id
    <3>1. now(id) = NoSecret
        BY Zenon, <2>1
    <3>2. KeyOf(id, merged) = NoSecret
        BY <1>1, <2>1 DEF KeyOf
    <3>. QED BY <3>1, <3>2
  <2>2. ASSUME NEW i \in DOMAIN page, page[i].rule.id = id PROVE now(id) = KeyOf(id, merged)
    <3>1. \A k \in DOMAIN page : page[k].rule.id = id => k = i
        BY <2>2 DEF PageOK
    <3>2. page[i].typed \in {"none", "new", ""}
      <4>1. page[i] \in SentType
          BY DEF PageOK
      <4>. QED BY <4>1 DEF SentType
    <3>3. (CHOOSE k \in DOMAIN merged : merged[k].id = id) = i
        BY <1>1, <2>2, <3>1
    <3>4. KeyOf(id, merged) = merged[i].key
        BY <1>1, <2>2, <3>3 DEF KeyOf
    <3>5. CASE page[i].typed = "new"
      <4>1. now(id) = Encrypted(id)
          BY Zenon, <2>2, <3>1, <3>5, "new" # "none"
      <4>. QED BY <1>1, <2>2, <3>4, <3>5, <4>1
    <3>6. CASE page[i].typed = "none"
      <4>1. now(id) = lastTyped[id]
          BY Zenon, <2>2, <3>1, <3>6, "new" # "none"
      <4>. QED BY <1>1, <2>2, <3>4, <3>6, <4>1
    <3>7. CASE page[i].typed = ""
      <4>1. now(id) = NoSecret
          BY Zenon, <3>1, <3>7, "new" # "", "none" # ""
      <4>. QED BY <1>1, <2>2, <3>4, <3>7, <4>1
    <3>. QED BY <3>2, <3>5, <3>6, <3>7
  <2>. QED BY <2>1, <2>2
<1>3. Typed(page) = [id \in RuleIds |-> now(id)]
    BY Zenon DEF Typed
<1>. HIDE DEF now
<1>. QED BY <1>2, <1>3 DEF merged

LEMMA WriteStep == ASSUME Inv, NEW a \in Admins, WriteRuntime(a) PROVE Inv'
<1>. DEFINE old == edit[a].old
            change == edit[a].change
<1>1. SettingsOK(old) /\ ChangeOK(change)
    BY DEF Inv, WriteRuntime, EditOK, NoEdit
<1>2. /\ settings' = Changed(old, change) /\ edit' = [edit EXCEPT ![a] = NoEdit]
      /\ lastTyped' = IF change.field = "rules" THEN Typed(change.value) ELSE lastTyped
      /\ raced' = (raced \/ old.rules # settings.rules)
      /\ era' = era /\ run' = run
    BY DEF WriteRuntime
<1>. HIDE DEF old, change
<1>3. /\ SettingsOK(settings')
      /\ settings'.rules = IF change.field = "rules" THEN MergeRuleSecrets(change.value, old.rules) ELSE old.rules
    BY <1>1, <1>2, ChangedOK DEF Inv
<1>4. edit' = [b \in Admins |-> edit'[b]] /\ \A b \in Admins : EditOK(edit'[b])
    BY <1>2 DEF Inv, EditOK
<1>5. ASSUME ~raced' PROVE lastTyped' = [id \in RuleIds |-> KeyOf(id, settings'.rules)]
  <2>1. ~raced /\ old.rules = settings.rules
      BY <1>2, <1>5
  <2>2. lastTyped = [id \in RuleIds |-> KeyOf(id, old.rules)]
      BY <2>1 DEF Inv
  <2>3. CASE change.field = "rules"
    <3>1. PageOK(change.value)
        BY <1>1, <2>3 DEF ChangeOK, Toggles, Urls
    <3>2. Typed(change.value) = [id \in RuleIds |-> KeyOf(id, MergeRuleSecrets(change.value, old.rules))]
        BY <1>1, <2>2, <3>1, TypedMatchesMerge DEF Inv, SettingsOK
    <3>. QED BY <1>2, <1>3, <2>3, <3>2
  <2>4. CASE change.field # "rules"
      BY <1>2, <1>3, <2>2, <2>4
  <2>. QED BY <2>3, <2>4
<1>. QED BY <1>2, <1>3, <1>4, <1>5 DEF Inv, MarkedIffPassedOn, RunIsSound, CanCall, PaidFor, Separate

(* What leaves the settings, the rules and the run alone. *)
LEMMA Elsewhere ==
    ASSUME Inv, UNCHANGED <<settings, run, lastTyped, raced>>, era' \in {era, era + 1},
           edit' = edit \/ edit' = [a \in Admins |-> NoEdit]
    PROVE  Inv'
<1>1. SettingsOK(settings)' /\ era' \in Nat
    BY DEF Inv
<1>2. edit' = [a \in Admins |-> edit'[a]] /\ \A a \in Admins : EditOK(edit'[a])
    BY DEF Inv, EditOK
<1>3. ~raced' => lastTyped' = [id \in RuleIds |-> KeyOf(id, settings'.rules)]
    BY DEF Inv
<1>4. MarkedIffPassedOn' /\ RunIsSound'
    BY DEF Inv, MarkedIffPassedOn, RunIsSound, CanCall, PaidFor, Separate
<1>. QED BY <1>1, <1>2, <1>3, <1>4 DEF Inv

LEMMA Keeps == Inv /\ [Next]_vars => Inv'
<1>. SUFFICES ASSUME Inv, [Next]_vars PROVE Inv'
    OBVIOUS
<1>1. ASSUME NEW a \in Admins, ReadSettings(a) PROVE Inv'
    BY <1>1, ReadStep
<1>2. ASSUME NEW a \in Admins, WriteRuntime(a) PROVE Inv'
    BY <1>2, WriteStep
<1>3. CASE Load
  <2>1. UNCHANGED <<settings, era, edit, lastTyped, raced>>
      BY <1>3 DEF Load
  <2>2. MarkedIffPassedOn' /\ RunIsSound'
      BY <1>3, LoadStep
  <2>. QED BY <2>1, <2>2 DEF Inv
<1>4. CASE SaveToken \/ ClearToken \/ EditModel
    BY <1>4, Elsewhere DEF SaveToken, ClearToken, EditModel
<1>5. CASE Rekey
    BY <1>5, Elsewhere DEF Rekey
<1>6. CASE (\E name \in {"matched", "other"} : SubmitPersonal(name)) \/ SubmitShared
    BY <1>6, Elsewhere DEF SubmitPersonal, SubmitShared
<1>7. CASE DryRun \/ Answered
    BY <1>7, Elsewhere DEF DryRun, Answered
<1>8. CASE UNCHANGED vars
    BY <1>8, Elsewhere DEF vars
<1>. QED BY <1>1, <1>2, <1>3, <1>4, <1>5, <1>6, <1>7, <1>8 DEF Next

LEMMA Always == Spec => []Inv
<1>1. Inv /\ [Next]_vars => Inv'
    BY Keeps
<1>. QED BY InvAtStart, <1>1, PTL DEF Spec

(* Whatever rules, fall-backs and unreadable secrets decide which key a    *)
(* run uses, its requests carry the batch mark if and only if that key is  *)
(* the user's (services/gateway.py:398, 455-457).                          *)
THEOREM MarksAreRight == Spec => []MarkedIffPassedOn
<1>1. Inv => MarkedIffPassedOn
    BY DEF Inv
<1>. QED BY <1>1, Always, PTL

(* A run that starts has what it calls with, and what it is charged with   *)
(* (services/gateway.py:158-185), after any number of edits and restarts.  *)
THEOREM RunsCanCall == Spec => []RunIsSound
<1>1. Inv => RunIsSound
    BY DEF Inv
<1>. QED BY <1>1, Always, PTL

(* Rules are found again by their id (api/admin_settings.py:73): a rule    *)
(* never gets another one's key, in any history of edits one at a time.    *)
THEOREM KeysStay == Spec => []RuleKeysKept
<1>1. Inv => RuleKeysKept
  <2>. SUFFICES ASSUME Inv, ~raced, NEW i \in DOMAIN settings.rules
                PROVE  settings.rules[i].key = lastTyped[settings.rules[i].id]
      BY DEF RuleKeysKept
  <2>. DEFINE rules == settings.rules
              id == rules[i].id
  <2>1. RulesOK(rules) /\ lastTyped = [n \in RuleIds |-> KeyOf(n, rules)]
      BY DEF Inv, SettingsOK
  <2>. HIDE DEF rules
  <2>2. i \in DOMAIN rules /\ id \in RuleIds
      BY <2>1, RuleFields DEF rules
  <2>3. (CHOOSE k \in DOMAIN rules : rules[k].id = id) = i
      BY <2>1, <2>2 DEF RulesOK
  <2>4. KeyOf(id, rules) = rules[i].key
      BY <2>2, <2>3 DEF KeyOf
  <2>. QED BY <2>1, <2>2, <2>4 DEF rules
<1>. QED BY <1>1, Always, PTL

-----------------------------------------------------------------------------
(* The parameters of a request.  Whose value a field of the body has is    *)
(* decided in layers, each laid over those before.                         *)

(* What the merge leaves of a field: the payload's value, or the first of  *)
(* the forced one, the user's and the default, cut to the cap.             *)
CapTo(k, v, cap) == IF k \in Limited /\ cap > 0 /\ v # Fraction /\ v > cap THEN cap ELSE v

Layer(mc, k, v) ==
    \/ k \in DOMAIN mc.forced /\ v = CapTo(k, 3, mc.cap)
    \/ k \notin DOMAIN mc.forced /\ k \in Allowed(mc) /\ \E u \in {2, Fraction} : v = CapTo(k, u, mc.cap)
    \/ k \notin DOMAIN mc.forced /\ v = CapTo(k, 1, mc.cap)

LEMMA Resolved ==
    ASSUME NEW fields \in SUBSET Fields, NEW mc \in Models(fields),
           NEW user \in Given(2, fields) \cup Given(Fraction, fields), NEW asked \in BOOLEAN,
           NEW k \in DOMAIN ResolveParams(mc, user, asked)
    PROVE  LET v == ResolveParams(mc, user, asked)[k]
           IN  \/ k \in DOMAIN ReasoningPayload(mc, asked) /\ v \in {0, 5}
               \/ k \notin DOMAIN ReasoningPayload(mc, asked) /\ Layer(mc, k, v)
<1> DEFINE payload == ReasoningPayload(mc, asked)
           chosen == Only(user, Allowed(mc))
           below == Over(chosen, mc.defaults)
           merged == Over(mc.forced, below)
           capped == Capped(merged, mc.cap)
<1>1. /\ \A i \in DOMAIN payload : payload[i] \in {0, 5}
      /\ \A i \in DOMAIN mc.forced : mc.forced[i] = 3
      /\ \A i \in DOMAIN mc.defaults : mc.defaults[i] = 1
    BY DEF Models, Given, ReasoningPayload
<1>2. \A i \in DOMAIN chosen : i \in Allowed(mc) /\ chosen[i] \in {2, Fraction}
    BY DEF Only, Given
<1>. HIDE DEF chosen, payload
<1>3. \A i \in DOMAIN below : \/ i \in Allowed(mc) /\ below[i] \in {2, Fraction}
                              \/ below[i] = 1
    BY <1>1, <1>2 DEF Over
<1>. HIDE DEF below
<1>4. \A i \in DOMAIN merged :
          \/ i \in DOMAIN mc.forced /\ merged[i] = 3
          \/ i \notin DOMAIN mc.forced /\ i \in DOMAIN below /\ merged[i] = below[i]
    BY <1>1 DEF Over
<1>. HIDE DEF merged
<1>5. DOMAIN capped = DOMAIN merged /\ \A i \in DOMAIN merged : capped[i] = CapTo(i, merged[i], mc.cap)
    BY DEF Capped, CapTo
<1>. HIDE DEF capped
<1>6. ResolveParams(mc, user, asked) = Over(payload, capped)
    BY DEF ResolveParams, payload, capped, merged, below, chosen
<1>7. k \in DOMAIN payload \cup DOMAIN capped
    BY <1>6 DEF Over
<1>8. ResolveParams(mc, user, asked)[k] = IF k \in DOMAIN payload THEN payload[k] ELSE capped[k]
    BY <1>6, <1>7 DEF Over
<1>9. CASE k \in DOMAIN payload
    BY <1>1, <1>8, <1>9 DEF payload
<1>10. CASE k \notin DOMAIN payload
  <2>1. k \in DOMAIN merged /\ ResolveParams(mc, user, asked)[k] = CapTo(k, merged[k], mc.cap)
      BY <1>5, <1>7, <1>8, <1>10
  <2>2. Layer(mc, k, CapTo(k, merged[k], mc.cap))
      BY <1>3, <1>4, <2>1 DEF Layer
  <2>. QED BY <1>10, <2>1, <2>2 DEF payload
<1>. QED BY <1>9, <1>10

LEMMA BodyOK ==
    ASSUME NEW fields \in SUBSET Fields, NEW mc \in Models(fields), NEW item \in Given(4, fields),
           NEW asked \in BOOLEAN, NEW user \in Given(2, fields) \cup Given(Fraction, fields),
           NEW body, body = BuildRequestBody(mc, item, ResolveParams(mc, user, asked))
    PROVE  LET payload == DOMAIN ReasoningPayload(mc, asked)
           IN  /\ \A k \in DOMAIN mc.forced \ (payload \cup {"model"}) : body[k] = Capped(mc.forced, mc.cap)[k]
               /\ body["model"] = 7
               /\ \A k \in DOMAIN body :
                     /\ body[k] \in {2, Fraction} => k \in Allowed(mc)
                     /\ body[k] = 4 => k \notin _PROTECTED_BODY_KEYS
                     /\ k \in Limited \ payload /\ mc.cap > 0 => body[k] =< mc.cap \/ body[k] \in {4, Fraction}
<1> DEFINE payload == DOMAIN ReasoningPayload(mc, asked)
           resolved == ResolveParams(mc, user, asked)
           line == Only(item, Fields \ _PROTECTED_BODY_KEYS)
           mixed == Over(line, resolved)
           kept == Only(resolved, DOMAIN mc.forced)
           most == Over(kept, mixed)
           fixed == [k \in {"model"} |-> 7]
<1>1. \A k \in DOMAIN line : line[k] = 4 /\ k \notin _PROTECTED_BODY_KEYS
    BY DEF Given, Only
<1>2. mc.cap \in {0, 1} /\ \A k \in DOMAIN mc.forced : mc.forced[k] = 3
    BY DEF Models, Given
<1>3. DOMAIN mc.forced \subseteq DOMAIN resolved
    BY DEF ResolveParams, Over, Capped
<1>4. \A k \in DOMAIN resolved :
          \/ k \in payload /\ resolved[k] \in {0, 5}
          \/ k \notin payload /\ Layer(mc, k, resolved[k])
    BY Resolved DEF resolved, payload
<1>. HIDE DEF resolved, payload, line
<1>5. DOMAIN kept = DOMAIN mc.forced /\ \A k \in DOMAIN mc.forced : kept[k] = resolved[k]
    BY <1>3 DEF Only
<1>6. DOMAIN mixed = DOMAIN line \cup DOMAIN resolved
      /\ \A k \in DOMAIN mixed : \/ mixed[k] = 4 /\ k \notin _PROTECTED_BODY_KEYS
                                 \/ k \in DOMAIN resolved /\ mixed[k] = resolved[k]
    BY <1>1 DEF Over
<1>. HIDE DEF kept, mixed
<1>7. /\ DOMAIN most = DOMAIN kept \cup DOMAIN mixed
      /\ \A k \in DOMAIN mc.forced : k \in DOMAIN most /\ most[k] = resolved[k]
      /\ \A k \in DOMAIN most : \/ most[k] = 4 /\ k \notin _PROTECTED_BODY_KEYS
                                \/ k \in DOMAIN resolved /\ most[k] = resolved[k]
    BY <1>3, <1>5, <1>6 DEF Over
<1>. HIDE DEF most
<1>8. DOMAIN fixed = {"model"} /\ fixed["model"] = 7
    OBVIOUS
<1>. HIDE DEF fixed
<1>9. body = Over(fixed, most)
    BY DEF BuildRequestBody, kept, mixed, resolved, most, fixed, line
<1>10. /\ body["model"] = 7
       /\ \A k \in DOMAIN body : k = "model" \/ (k \in DOMAIN most /\ body[k] = most[k])
       /\ \A k \in DOMAIN most : k # "model" => body[k] = most[k]
    BY <1>8, <1>9 DEF Over
<1>11. \A k \in DOMAIN mc.forced : Capped(mc.forced, mc.cap)[k] = CapTo(k, 3, mc.cap)
    BY <1>2 DEF Capped, CapTo
<1>12. ASSUME NEW k \in DOMAIN mc.forced \ (payload \cup {"model"})
       PROVE  body[k] = Capped(mc.forced, mc.cap)[k]
  <2>1. k \in DOMAIN resolved /\ body[k] = resolved[k]
      BY <1>3, <1>7, <1>10
  <2>2. resolved[k] = CapTo(k, 3, mc.cap)
      BY <1>4, <2>1 DEF Layer
  <2>. QED BY <1>11, <2>1, <2>2
<1>13. ASSUME NEW k \in DOMAIN body, k # "model"
       PROVE  /\ body[k] \in {2, Fraction} => k \in Allowed(mc)
              /\ body[k] = 4 => k \notin _PROTECTED_BODY_KEYS
              /\ k \in Limited \ payload /\ mc.cap > 0 => body[k] =< mc.cap \/ body[k] \in {4, Fraction}
  <2>1. CASE body[k] = 4 /\ k \notin _PROTECTED_BODY_KEYS
      BY <2>1 DEF Fraction
  <2>2. CASE k \in DOMAIN resolved /\ body[k] = resolved[k]
    <3>1. CASE k \in payload /\ resolved[k] \in {0, 5}
        BY <2>2, <3>1 DEF Fraction
    <3>2. CASE k \notin payload /\ Layer(mc, k, resolved[k])
      <4>1. \/ body[k] = 1 \/ body[k] = 3
            \/ k \in Allowed(mc) /\ body[k] \in {2, Fraction}
          BY <1>2, <2>2, <3>2 DEF Layer, CapTo, Fraction
      <4>2. k \in Limited /\ mc.cap > 0 => body[k] =< mc.cap \/ body[k] = Fraction
          BY <1>2, <2>2, <3>2 DEF Layer, CapTo, Fraction
      <4>. QED BY <4>1, <4>2 DEF Fraction
    <3>. QED BY <1>4, <2>2, <3>1, <3>2
  <2>3. k \in DOMAIN most /\ body[k] = most[k]
      BY <1>10, <1>13
  <2>4. \/ body[k] = 4 /\ k \notin _PROTECTED_BODY_KEYS
        \/ k \in DOMAIN resolved /\ body[k] = resolved[k]
      BY <1>7, <2>3
  <2>. QED BY <2>1, <2>2, <2>4
<1>14. "model" \notin Limited
    BY DEF Limited
<1>. QED BY <1>10, <1>12, <1>13, <1>14 DEF payload, Fraction

LEMMA DryRunOK == ASSUME DryRun PROVE ParamsObeyed'
<1>1. PICK fields \in SUBSET Fields : \E mc \in Models(fields), item \in Given(4, fields), asked \in BOOLEAN,
          user \in Given(2, fields) \cup Given(Fraction, fields) :
          call' = [sent |-> TRUE, mc |-> mc, asked |-> asked,
                   body |-> BuildRequestBody(mc, item, ResolveParams(mc, user, asked))]
    BY Zenon DEF DryRun
<1>2. PICK mc \in Models(fields), item \in Given(4, fields), asked \in BOOLEAN,
          user \in Given(2, fields) \cup Given(Fraction, fields) :
          call' = [sent |-> TRUE, mc |-> mc, asked |-> asked,
                   body |-> BuildRequestBody(mc, item, ResolveParams(mc, user, asked))]
    BY <1>1
<1>. DEFINE body == BuildRequestBody(mc, item, ResolveParams(mc, user, asked))
            payload == DOMAIN ReasoningPayload(mc, asked)
<1>3. call'.mc = mc /\ call'.body = body /\ call'.asked = asked
    BY <1>2
<1>4. /\ \A k \in DOMAIN mc.forced \ (payload \cup {"model"}) : body[k] = Capped(mc.forced, mc.cap)[k]
      /\ body["model"] = 7
      /\ \A k \in DOMAIN body :
            /\ body[k] \in {2, Fraction} => k \in Allowed(mc)
            /\ body[k] = 4 => k \notin _PROTECTED_BODY_KEYS
            /\ k \in Limited \ payload /\ mc.cap > 0 => body[k] =< mc.cap \/ body[k] \in {4, Fraction}
    BY BodyOK
<1>5. FromPayload' = payload
    BY <1>3 DEF FromPayload, payload
<1>. HIDE DEF body, payload
<1>6. ForcedWins'
    BY <1>3, <1>4, <1>5 DEF ForcedWins
<1>7. UsersKept'
    BY <1>3, <1>4 DEF UsersKept
<1>8. LimitsKept'
    BY <1>3, <1>4, <1>5 DEF LimitsKept
<1>. QED BY <1>6, <1>7, <1>8 DEF ParamsObeyed

(* Whatever the model, the user and the line ask for, a request carries    *)
(* what the model forces, nothing of the user's that is not allowed, and   *)
(* within the cap every limit but three: one of the model's own reasoning  *)
(* payload, which is merged after the cap (services/inference.py:164-174), *)
(* one the line wrote, and one of the user's that is not an integer.       *)
THEOREM RequestsObey == Spec => []ParamsObeyed
<1>1. Init => ParamsObeyed
    BY DEF Init, ParamsObeyed, NoCall
<1>2. ParamsObeyed /\ [Next]_vars => ParamsObeyed'
  <2>. SUFFICES ASSUME ParamsObeyed, [Next]_vars PROVE ParamsObeyed'
      OBVIOUS
  <2>1. CASE call' = call
      BY <2>1 DEF ParamsObeyed, ForcedWins, UsersKept, LimitsKept, FromPayload
  <2>2. CASE Answered
      BY <2>2 DEF Answered, ParamsObeyed, NoCall
  <2>. QED BY <2>1, <2>2, DryRunOK
           DEF Next, vars, ReadSettings, WriteRuntime, SaveToken, ClearToken, EditModel, Rekey,
               SubmitPersonal, SubmitShared, Load
<1>. QED BY <1>1, <1>2, PTL DEF Spec
=============================================================================
