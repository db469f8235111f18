-------------------------- MODULE RateLimitConfig --------------------------
(***************************************************************************)
(* The configuration of the rate limit service (config/config_impl.go):    *)
(* reloadConfig() reads YAML files into a tree of descriptors, and         *)
(* GetLimit() walks the tree to find the limit of a descriptor.            *)
(*                                                                         *)
(* The tree is keyed by strings that are put together from a key and a     *)
(* value.  A string is the sequence of the words between its underscores,  *)
(* so that "k" + "_" + "v" is k \o v and two pairs may make the same key;  *)
(* <<>> is the value that is left out.  A file is read in the order of its *)
(* descriptors, nested ones after the one that holds them.                 *)
(***************************************************************************)
EXTENDS Naturals, Sequences, SequencesExt, FiniteSets

CONSTANTS Domains, Keys, Values,  \* strings of the YAML files and of the requests
          Limits,                 \* valid rate_limit blocks
          NoLimit, BadLimit,      \* no block; a block with an unknown unit
          MaxDepth,               \* bound: nesting of descriptors
          MaxRules                \* bound: descriptors read, over all loads

ASSUME ConfigAssumption ==
    /\ MaxDepth \in Nat \ {0} /\ MaxRules \in Nat
    /\ NoLimit \notin Limits /\ BadLimit \notin Limits /\ NoLimit # BadLimit
    /\ <<>> \notin Keys \cup Values \cup Domains

VARIABLES
    loading,   \* reloadConfig is under way
    domain,    \* the domain of the file being read, <<>> between files
    at,        \* the keys of the last descriptor read and of those it is nested in
    new,       \* the configuration being built: [domains, nodes]
    config,    \* service.config
    yaml,      \* the rules read in this load, as they stand in the files
    rules,     \* the rules service.config was built from
    read       \* descriptors read so far

configVars == <<loading, domain, at, new, config, yaml, rules, read>>

\* A tree is the limit at every path of map keys, per domain.
Empty == [domains |-> {}, nodes |-> [n \in {} |-> NoLimit]]

ConfigInit ==
    /\ loading = FALSE /\ domain = <<>> /\ at = <<>>
    /\ new = Empty /\ config = Empty
    /\ yaml = {} /\ rules = {} /\ read = 0

\* A panic anywhere in the load is recovered by reloadConfig(): what was built
\* is dropped and the service keeps its configuration.
Panic ==
    /\ loading' = FALSE /\ domain' = <<>> /\ at' = <<>> /\ new' = Empty /\ yaml' = {}
    /\ UNCHANGED <<config, rules>>

\* reloadConfig(): take the files of the runtime snapshot.
StartLoad ==
    /\ ~loading /\ read < MaxRules
    /\ loading' = TRUE /\ new' = Empty /\ yaml' = {}
    /\ UNCHANGED <<domain, at, config, rules, read>>

\* loadConfig() up to the descriptors.  A file that is no YAML, has an unknown
\* key, an empty domain (<<>>) or the domain of an earlier file panics.
LoadConfig(d, valid) ==
    /\ loading
    /\ IF ~valid \/ d = <<>> \/ d \in new.domains
       THEN Panic
       ELSE /\ domain' = d /\ at' = <<>>
            /\ new' = [new EXCEPT !.domains = @ \cup {d}]
            /\ UNCHANGED <<loading, config, yaml, rules>>
    /\ UNCHANGED read

\* Value is optional: the key of the map is the key only, or key_value.
FinalKey(k, v) == k \o v

\* "duplicate descriptor composite key"
Duplicate(path) == <<domain, path>> \in DOMAIN new.nodes


\* "invalid rate limit unit"
Invalid(limit) == limit = BadLimit

\* One turn of the loop of loadDescriptors(), at nesting depth.
LoadDescriptor(depth, k, v, limit) ==
    LET above == SubSeq(at, 1, depth)
        path  == Append([n \in 1..depth |-> FinalKey(above[n][1], above[n][2])], FinalKey(k, v))
    IN  /\ loading /\ domain # <<>> /\ read < MaxRules
        /\ depth <= Len(at) /\ depth < MaxDepth
        /\ read' = read + 1
        /\ IF k = <<>> \/ Duplicate(path) \/ Invalid(limit)
           THEN Panic
           ELSE /\ at' = Append(above, <<k, v>>)
                /\ new' = [new EXCEPT !.nodes =
                     [n \in DOMAIN @ \cup {<<domain, path>>} |->
                        IF n = <<domain, path>> THEN limit ELSE @[n]]]
                /\ yaml' = yaml \cup {[domain |-> domain, path |-> at', limit |-> limit]}
                /\ UNCHANGED <<loading, domain, config, rules>>

\* The end of reloadConfig(): the new configuration is installed as a whole.
FinishLoad ==
    /\ loading
    /\ config' = new /\ rules' = yaml
    /\ loading' = FALSE /\ domain' = <<>> /\ at' = <<>> /\ new' = Empty /\ yaml' = {}
    /\ UNCHANGED read

ConfigNext ==
    \/ StartLoad \/ FinishLoad
    \/ \E d \in Domains \cup {<<>>}, valid \in BOOLEAN : LoadConfig(d, valid)
    \/ \E depth \in 0..(MaxDepth - 1), k \in Keys \cup {<<>>}, v \in Values \cup {<<>>},
          limit \in Limits \cup {NoLimit, BadLimit} : LoadDescriptor(depth, k, v, limit)

ConfigSpec == ConfigInit /\ [][ConfigNext]_configVars

----------------------------------------------------------------------------
\* The lookup.

Child(d, path, key) == <<d, Append(path, key)>> \in DOMAIN config.nodes
HasChildren(d, path) ==
    \E n \in DOMAIN config.nodes :
        n[1] = d /\ Len(n[2]) = Len(path) + 1 /\ SubSeq(n[2], 1, Len(path)) = path

\* Mutant: the default of a key hides the rule for a value.
NextKeyDefaultFirst(d, path, entry) ==
    IF Child(d, path, entry[1]) THEN entry[1] ELSE FinalKey(entry[1], entry[2])

\* key_value is tried before key.
NextKey(d, path, entry) ==
    IF Child(d, path, FinalKey(entry[1], entry[2])) THEN FinalKey(entry[1], entry[2])
    ELSE entry[1]

\* GetLimit(): one turn of its loop for every entry, until nothing matches or
\* the tree has no further level.  Only the last entry can yield the limit.
GetLimit(d, entries) ==
    LET turn(s, n) ==
          LET key == NextKey(d, s.path, entries[n])
              path == Append(s.path, key)
          IN  IF s.stop \/ ~Child(d, s.path, key) THEN [s EXCEPT !.stop = TRUE]
              ELSE [path |-> path,
                    limit |-> IF n = Len(entries) THEN config.nodes[<<d, path>>] ELSE NoLimit,
                    stop |-> ~HasChildren(d, path)]
        start == [path |-> <<>>, limit |-> NoLimit, stop |-> d \notin config.domains]
    IN  FoldLeft(turn, start, [n \in DOMAIN entries |-> n]).limit

\* generateCacheKey() without the window: domain_key_value_key_value_
generateCacheKey(d, entries) ==
    d \o FlattenSeq([n \in DOMAIN entries |-> entries[n][1] \o entries[n][2]])

----------------------------------------------------------------------------
(***************************************************************************)
(* Properties.                                                             *)
(***************************************************************************)

Entries == UNION {[1..n -> Keys \X Values] : n \in 1..MaxDepth}

\* Types; a configuration that is built or in service holds valid limits only.
ConfigTypeOK ==
    /\ loading \in BOOLEAN /\ domain \in Domains \cup {<<>>} /\ read \in 0..MaxRules
    /\ \A tree \in {new, config} :
          /\ tree.domains \subseteq Domains
          /\ \A n \in DOMAIN tree.nodes :
                n[1] \in tree.domains /\ tree.nodes[n] \in Limits \cup {NoLimit}

\* The rule of the files for a descriptor: as many levels as the descriptor
\* has entries, and at each the rule for the value before that for the key
\* (ratelimit README.md:211-219).  Name says which pairs are told apart.
MostSpecific(Name(_, _), d, entries, r) ==
    LET named(path) == [n \in DOMAIN path |-> Name(path[n][1], path[n][2])]
    IN  /\ r.domain = d /\ Len(r.path) = Len(entries)
        /\ \A n \in DOMAIN entries :
              LET value == Append(SubSeq(named(r.path), 1, n - 1), Name(entries[n][1], entries[n][2]))
              IN  \/ SubSeq(named(r.path), 1, n) = value
                  \/ /\ named(r.path)[n] = Name(entries[n][1], <<>>)
                     /\ ~\E q \in rules : q.domain = d /\ named(q.path) = value

Finds(Name(_, _), d, entries) ==
    LET match == {r \in rules : MostSpecific(Name, d, entries, r)}
    IN  IF match = {} THEN GetLimit(d, entries) = NoLimit
        ELSE \A r \in match : GetLimit(d, entries) = r.limit

\* No rule is for another pair that joins to a name looked up for the descriptor.
Unambiguous(d, entries) ==
    \A r \in rules, n \in DOMAIN entries :
        (r.domain = d /\ n \in DOMAIN r.path) =>
            LET pair == <<r.path[n][1], r.path[n][2]>>
            IN  \A looked \in {entries[n], <<entries[n][1], <<>>>>} :
                   FinalKey(pair[1], pair[2]) = FinalKey(looked[1], looked[2]) => pair = looked

\* Whatever was loaded and however earlier loads failed, GetLimit() finds the
\* limit of the most specific rule of the files last loaded without error, and
\* no limit if there is no rule.  It tells rules apart by their joined names,
\* of which there is one each; where no underscore in a key or value makes these
\* ambiguous, that is the rule for the very descriptor.
LookupCorrect ==
    /\ ConfigTypeOK
    /\ \A d \in Domains, entries \in Entries :
          /\ Finds(FinalKey, d, entries)
          /\ Unambiguous(d, entries) => Finds(LAMBDA k, v : <<k, v>>, d, entries)

\* Ratelimit README.md:211-219, of every descriptor: false where a key or a value
\* holds an underscore, as the deployed remote_address does.
LookupDocumented ==
    \A d \in Domains, entries \in Entries : Finds(LAMBDA k, v : <<k, v>>, d, entries)

\* Ratelimit README.md:164-167, "match against any value supplied ... and
\* generate a unique limit": two limited descriptors do not share a counter.
\* False where names hold underscores.
CountersUnique ==
    \A d, e \in Domains : \A x, y \in Entries :
        /\ GetLimit(d, x) # NoLimit /\ GetLimit(e, y) # NoLimit
        /\ generateCacheKey(d, x) = generateCacheKey(e, y)
        => d = e /\ x = y
=============================================================================
