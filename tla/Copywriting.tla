------------------------------ MODULE Copywriting ----------------------------
(***************************************************************************)
(* The copy generator (src/src/copywriting/generator.py, provider.py and   *)
(* models.py) behind the route /copy/generate                              *)
(* (src/src/services/content.py), and the arms it hands to the             *)
(* orchestration.                                                          *)
(*                                                                         *)
(* The provider draws a template and a call to action from a SHA-256 of the*)
(* request, the locale and the seed: `digest` is one of the outcomes that  *)
(* hash may have, fixed for the whole behaviour.                           *)
(***************************************************************************)
EXTENDS Compliance

CONSTANTS
    CopyRequests,       \* the requests the route may get
    SUPPORTED_LOCALES,
    TEMPLATES,          \* goal -> locale -> a sequence of [head, mid]
    CTAS,               \* locale -> a sequence of texts
    TONE_PREFIX,        \* tone -> locale -> a text
    Spelled,            \* product -> its name as a text
    DefaultChannel,     \* compliance_channel_default
    MaxSeeds,           \* the seeds the digest is drawn for
    Draws,              \* the numbers a digest may come to
    MAX_ARMS,           \* the number of arm names
    ContentIds, Weights \* the overrides an operator may give, by position

\* A request names locales and counts its seeds; every goal and locale has a
\* template and a call to action, every tone a prefix, every product a name.
ASSUME CopyAssumption ==
    /\ Absent # "200" /\ Draws \subseteq Nat /\ MaxSeeds \in Nat
    /\ \A r \in CopyRequests :
           /\ r.locales \in Seq(STRING) /\ r.n \in Int /\ r.n <= MaxSeeds
           /\ Spelled[r.product] \in Seq(Characters)
    /\ "default" \in DOMAIN TEMPLATES
    /\ \A l \in SUPPORTED_LOCALES :
           /\ \A goal \in DOMAIN TEMPLATES :
                  /\ TEMPLATES[goal][l] # <<>>
                  /\ TEMPLATES[goal][l] \in Seq([head : Seq(Characters), mid : Seq(Characters)])
           /\ CTAS[l] # <<>> /\ CTAS[l] \in Seq(Seq(Characters))
           /\ \A tone \in DOMAIN TONE_PREFIX : TONE_PREFIX[tone][l] \in Seq(Characters)

VARIABLES request, digest, status, variants, arms
copyVars == <<request, digest, status, variants, arms>>

Seeds == 0..(MaxSeeds - 1)

CopyInit ==
    /\ request \in CopyRequests
    /\ digest \in [{"tpl", "cta"} \X SUPPORTED_LOCALES \X Seeds -> Draws]
    /\ status = Absent /\ variants = <<>> /\ arms = <<>>

-----------------------------------------------------------------------------
(* TemplateProvider.generate                                                *)

Picked(choices, kind, locale, seed) ==
    choices[1 + (digest[<<kind, locale, seed>>] % Len(choices))]
TemplatesOf(goal) == TEMPLATES[IF goal \in DOMAIN TEMPLATES THEN goal ELSE "default"]
Prefix(tone, locale) == IF tone \in DOMAIN TONE_PREFIX THEN TONE_PREFIX[tone][locale] ELSE <<>>

Phrase(r, locale, seed) ==
    LET template == Picked(TemplatesOf(r.goal)[locale], "tpl", locale, seed)
        cta      == Picked(CTAS[locale], "cta", locale, seed)
    IN  Prefix(r.tone, locale) \o template.head \o Spelled[r.product] \o template.mid \o cta

-----------------------------------------------------------------------------
(* CopyRequest.__post_init__, CopyGenerator.generate and the route: 422 for *)
(* what either refuses.                                                     *)

Members(s) == {s[i] : i \in DOMAIN s}
Acceptable(r) ==
    /\ r.locales # <<>> /\ Members(r.locales) \subseteq SUPPORTED_LOCALES
    /\ r.max_len # Absent => r.max_len > 0
    /\ r.n >= 1

ChannelOf(r) == IF r.channel = Absent THEN DefaultChannel ELSE r.channel

Variant(r, locale, seed) ==
    LET raw    == Phrase(r, locale, seed)
        result == Check(raw, ChannelOf(r), r.product)
    IN  [locale |-> locale, seed |-> seed, raw |-> raw, text |-> result.fixed_text,
         compliant |-> result.ok]

\* Locale by locale, and seed by seed within a locale.
Copies(r) ==
    [i \in 1..(Len(r.locales) * r.n) |->
        Variant(r, r.locales[1 + (i - 1) \div r.n], (i - 1) % r.n)]

Generate ==
    /\ status = Absent
    /\ status' = IF Acceptable(request) THEN "200" ELSE "422"
    /\ variants' = IF Acceptable(request) THEN Copies(request) ELSE <<>>
    /\ UNCHANGED <<request, digest, arms>>

-----------------------------------------------------------------------------
(* to_orchestration_variants: one arm per seed, in the order of the seeds;  *)
(* ids and weights by position while they last.                             *)

SeedsOf(vs) == {v.seed : v \in Members(vs)}
Rank(seed, vs) == 1 + Cardinality({s \in SeedsOf(vs) : s < seed})

\* A later locale of the seed takes the place of an earlier one.
PayloadOfLast(seed, vs) ==
    LET v == vs[Last({i \in DOMAIN vs : vs[i].seed = seed})] IN [l \in {v.locale} |-> v.text]
Payload(seed, vs) ==
    LET mine == {i \in DOMAIN vs : vs[i].seed = seed}
    IN  [l \in {vs[i].locale : i \in mine} |->
            vs[Last({i \in mine : vs[i].locale = l})].text]

Override(given, position, default) == IF position \in DOMAIN given THEN given[position] ELSE default

Arms(vs, ids, weights) ==
    [a \in 1..Cardinality(SeedsOf(vs)) |->
        LET seed == CHOOSE s \in SeedsOf(vs) : Rank(s, vs) = a
        IN  [name |-> a, content_id |-> Override(ids, a, a), weight |-> Override(weights, a, 1),
             payload |-> Payload(seed, vs)]]

ToOrchestration(ids, weights) ==
    /\ status = "200" /\ arms = <<>>
    /\ IF Cardinality(SeedsOf(variants)) > MAX_ARMS
       THEN status' = "too many arms" /\ UNCHANGED arms
       ELSE arms' = Arms(variants, ids, weights) /\ UNCHANGED status
    /\ UNCHANGED <<request, digest, variants>>

CopyNext == Generate \/ (\E ids \in ContentIds, weights \in Weights : ToOrchestration(ids, weights))
CopySpec == CopyInit /\ [][CopyNext]_copyVars

-----------------------------------------------------------------------------
(* Every arm speaks every locale of the request, and in each of them says   *)
(* what the generator produced for one and the same seed: the arms of an    *)
(* experiment differ by phrasing, never by reach.                           *)
ArmsSpeakEveryLocale ==
    \A a \in DOMAIN arms :
        /\ DOMAIN arms[a].payload = Members(request.locales)
        /\ \E seed \in Seeds : \A l \in DOMAIN arms[a].payload :
               \E v \in Members(variants) :
                   v.locale = l /\ v.seed = seed /\ v.text = arms[a].payload[l]

(* What leaves the generator fits the channel it leaves by, the default one *)
(* when the request names none, and carries the disclaimer of its product   *)
(* whatever was cut to make it fit.                                         *)
CopyFitsItsChannel ==
    \A v \in Members(variants) :
        /\ LET channel == IF request.channel = Absent THEN DefaultChannel ELSE request.channel
           IN  channel \in DOMAIN CHANNEL_MAX_LEN => Len(v.text) <= CHANNEL_MAX_LEN[channel]
        /\ Required(request.product) => Mentions(v.text, DISCLAIMER_TEXT)

(* Every arm speaks every locale of the request with the text of one seed,  *)
(* and what leaves the generator fits its channel with its disclaimer       *)
(* (generate and to_orchestration_variants).                                *)
ArmsAreWhole == ArmsSpeakEveryLocale /\ CopyFitsItsChannel

(* What CopyRequest says of max_len: it flows into the length check.        *)
MaxLenIsRespected ==
    request.max_len # Absent => \A v \in Members(variants) : Len(v.text) <= request.max_len

(* What the generator says of the seeds: the arms differ.                   *)
ArmsDiffer ==
    \A a, b \in DOMAIN arms : a # b => arms[a].payload # arms[b].payload

(* What `generate` says it returns: compliant variants.                     *)
CopiesAreCompliant == \A v \in Members(variants) : v.compliant
=============================================================================
