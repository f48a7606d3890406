\* Datasets of at most two users or three events; sentences of at most three
\* phrases, after which nothing more is said.
SPECIFICATION AudienceSpec
CHECK_DEADLOCK FALSE
INVARIANTS
    
    SentencesMeanThePhrases
PROPERTIES
    RulesComeBack
