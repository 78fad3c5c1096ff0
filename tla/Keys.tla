-------------------------------- MODULE Keys --------------------------------
(***************************************************************************)
(* keys.go: the keys the parts of rediskit use.  A string is a sequence of *)
(* characters in Build, where escaping is the point; in Qualify, where the *)
(* prefixes of the parts are, it is a sequence of words that end with the  *)
(* separator.                                                              *)
(***************************************************************************)
EXTENDS Naturals, Sequences, SequencesExt

CONSTANTS Char,          \* characters of a part of a key, ":" and "%" among them
          MaxLength,     \* bound on the characters of a call of Build
          Word           \* words of a name or a key, such as "lock:" and "fence:"

ASSUME CharAssumption == {":", "%"} \subseteq Char /\ MaxLength \in Nat

VARIABLES parts,      \* the arguments of a call of Build
          resource    \* what a part of rediskit keeps in Redis
keyVars == <<parts, resource>>

Part == UNION {[1..n -> Char] : n \in 0..MaxLength}
PartLists ==
    {<<>>} \cup {<<part>> : part \in Part}
    \cup {list \in Part \X Part : Len(list[1]) + Len(list[2]) <= MaxLength}

Escaped_OnlySeparator(part) ==
    FlattenSeq([i \in DOMAIN part |->
                   IF part[i] = ":" THEN <<"%", "3", "A">> ELSE <<part[i]>>])

\* writeEscaped
Escaped(part) ==
    FlattenSeq([i \in DOMAIN part |-> CASE part[i] = ":" -> <<"%", "3", "A">>
                                        [] part[i] = "%" -> <<"%", "2", "5">>
                                        [] OTHER -> <<part[i]>>])

\* Build: empty parts are skipped, a separator precedes all but the first.
Joined(key, part) ==
    IF part = <<>> THEN key
    ELSE key \o (IF key = <<>> THEN <<>> ELSE <<":">>) \o Escaped(part)
Build(ns, list) == FoldLeft(Joined, ns, list)

\* Qualify: the namespace and a separator before the key, nothing escaped.
Qualify(ns, key) == IF ns = <<>> THEN key ELSE ns \o key

\* The keys of the parts: a lock, its fence counter, a bucket, a token, a cached value.
Module == {"lock", "fence", "rl", "token", "cache"}
Names == UNION {[1..n -> Word] : n \in 0..2}
KeyOf(r) ==
    Qualify(<<"app:">>, CASE r.of = "lock" -> <<"lock:">> \o r.name
                         [] r.of = "fence" -> <<"lock:", "fence:">> \o r.name
                         [] r.of = "rl" -> <<"rl:">> \o r.name
                         [] r.of = "token" -> <<"token:">> \o r.name
                         [] r.of = "cache" -> r.name)
Resources == [of : Module, name : Names]

Nothing == [of |-> "cache", name |-> <<>>]
KeysInit == parts = <<>> /\ resource = Nothing
KeysNext ==
    /\ parts = <<>> /\ resource = Nothing
    /\ \/ parts' \in PartLists /\ UNCHANGED resource
       \/ resource' \in Resources /\ UNCHANGED parts

KeysTypeOK == parts \in PartLists /\ resource \in Resources

Built == [list \in PartLists |-> Build(<<"x">>, list)]

\* The parts that make the key.
WithPart(list, part) == IF part = <<>> THEN list ELSE Append(list, part)
NotEmpty(list) == FoldLeft(WithPart, <<>>, list)

\* Build is injective on its nonempty parts: a separator or a percent sign inside a part
\* never makes two lists one key (keys.go 40-41).
BuildInjective ==
    LET key == Build(<<"x">>, parts)
    IN  parts # <<>> => \A list \in PartLists : Built[list] = key => NotEmpty(list) = NotEmpty(parts)

\* Two resources have one key only when one of them is a cached value, whose key has no
\* prefix, or the fence counter of a lock and a lock whose name begins with "fence:".
MeetsLock(r, s) == r.of = "fence" /\ s.of = "lock" /\ s.name # <<>> /\ s.name[1] = "fence:"
ModulesApart ==
    resource # Nothing => \A r \in Resources :
        KeyOf(r) = KeyOf(resource) /\ r # resource =>
            "cache" \in {r.of, resource.of} \/ MeetsLock(r, resource) \/ MeetsLock(resource, r)

\* Different things get different keys, with these exceptions.
KeysDistinct == BuildInjective /\ ModulesApart

=============================================================================
