---------------------------- MODULE Credentials ----------------------------
(***************************************************************************)
(* Credentials remembered per protection space (net/auth.rs): challenges,  *)
(* the bounded in-memory store, the directories they were accepted in, and *)
(* what goes out upfront, before any challenge.                            *)
(*                                                                         *)
(* A path is the sequence of its segments; its directory is all but the    *)
(* last.  A challenge header is the sequence of its elements, the texts    *)
(* between its commas.                                                     *)
(***************************************************************************)
EXTENDS Integers, Sequences, FiniteSets, SequencesExt, Parts

CONSTANTS Logins,     \* the requests that answer challenges at once
          Responses,  \* what they may be asked, see ResponseType
          Paths,      \* the paths that are asked for
          Secrets,    \* the Credentials::Basic; all others are Raw
          Hooks,      \* what on_auth_challenge may give: a function from schemes
          Unsendable, \* the credentials of either kind that make no header value
          MaxSpaces,  \* MAX_CREDENTIAL_ENTRIES
          MaxDirs,    \* MAX_UPFRONT_DIRECTORIES
          None

VARIABLES entries,    \* the store, oldest stamp first: [space, credentials, directories]
          login,      \* [pc, space, secret, path] of each: the AuthSlot's unproven
          proven,     \* with what, and in which directories, a server let Basic logins in: history
          raced       \* the spaces held since they were stored to while a login was noting its
                      \* directory there: history

\* Both limits leave room for one.
SomeRoom == MaxSpaces \in Nat \ {0} /\ MaxDirs \in Nat \ {0}

credVars == <<entries, login, proven, raced>>

\* as_param: name=value; a quoted value has lost its quotes and its escapes.
Param(e) == e.kind = "param" /\ DOMAIN e = {"kind", "name", "value"}

\* An element that is not one begins with a scheme, and has a parameter, a token or nothing
\* after it; or it is empty.
Element(e) ==
    \/ e.kind = "empty" \/ Param(e)
    \/ e.kind = "scheme" /\ DOMAIN e = {"kind", "scheme", "rest"}

\* A 401 or a 407 of asker, an origin, and the lines of its challenge header.
ResponseType(r) ==
    r.status \in {401, 407} /\ \A i \in DOMAIN r.lines : \A j \in DOMAIN r.lines[i] : Element(r.lines[i][j])

\* AuthTarget::for_status.
for_status(status) == CASE status = 401 -> "Server" [] status = 407 -> "Proxy" [] OTHER -> None

\* AuthScheme::parse, and the spelling of an unknown scheme that keys its space.
parse_scheme(name) == IF name = "NewAuth" THEN "newauth" ELSE name

\* A parameter continues the challenge before it, if there is one; any other element starts
\* one.
parse_challenge_list(line) ==
    LET Take(out, e) ==
            CASE e.kind = "scheme" -> Append(out, [scheme |-> e.scheme, params |->
                                         IF e.rest = None \/ e.rest.kind # "param" THEN <<>> ELSE <<e.rest>>])
              [] e.kind = "param" /\ out # <<>> -> [out EXCEPT ![Len(out)].params = Append(@, e)]
              [] OTHER -> out
    IN  FoldLeft(Take, <<>>, line)

\* The first of the parameters that is called realm, or nothing.
realm(raw) ==
    LET found == SelectSeq(raw.params, LAMBDA p : p.name = "realm")
    IN  IF found = <<>> THEN "" ELSE found[1].value

\* parse_challenges: the challenges of all lines, in the server's order.
parse_challenges(r) ==
    LET raws == FlattenSeq([i \in DOMAIN r.lines |-> parse_challenge_list(r.lines[i])])
    IN  [i \in DOMAIN raws |-> [target |-> for_status(r.status), asker |-> r.asker,
                                scheme |-> raws[i].scheme, realm |-> realm(raws[i])]]

\* AuthChallenge::protection_space; asker is the server's origin, or the proxy's.
protection_space(challenge) ==
    [target |-> challenge.target, scheme |-> parse_scheme(challenge.scheme),
     origin |-> challenge.asker, realm |-> challenge.realm]

\* Credentials::header_value: a name with a colon or a control character makes no header.
header_value(c) == IF c \in Unsendable THEN None ELSE c

directory_of(path) == SubSeq(path, 1, Len(path) - 1)

-----------------------------------------------------------------------------
(* InMemoryCredentialStore.                                                *)

Held(space) == {i \in DOMAIN entries : entries[i].space = space}
credentials_for(space) ==
    IF Held(space) = {} THEN None ELSE entries[CHOOSE i \in Held(space) : TRUE].credentials

\* A space has one entry at most.
Dropped(space) ==
    IF Held(space) = {} THEN entries ELSE RemoveAt(entries, CHOOSE i \in Held(space) : TRUE)

store_keeps_directories(space, c) ==
    LET old  == Held(space)
        rest == IF old = {} /\ Len(entries) >= MaxSpaces THEN Tail(entries) ELSE Dropped(space)
    IN  Append(rest, [space |-> space, credentials |-> c,
                      directories |-> IF old = {} THEN <<>> ELSE entries[CHOOSE i \in old : TRUE].directories])

\* store: the youngest entry; the directories of an old one stay only with its credentials.
store(space, c) ==
    LET old  == {i \in Held(space) : entries[i].credentials = c}
        rest == IF Held(space) = {} /\ Len(entries) >= MaxSpaces THEN Tail(entries) ELSE Dropped(space)
    IN  Append(rest, [space |-> space, credentials |-> c,
                      directories |-> IF old = {} THEN <<>> ELSE entries[CHOOSE i \in old : TRUE].directories])

\* The directories once one more was found good.
Covering(dirs, dir) ==
    LET apart == Retained(dirs, {i \in DOMAIN dirs : ~IsPrefix(dir, dirs[i])})
    IN  IF \E i \in DOMAIN dirs : IsPrefix(dirs[i], dir) THEN dirs
        ELSE Append(IF Len(apart) >= MaxDirs THEN Tail(apart) ELSE apart, dir)

\* accepted_at: only for Basic credentials of a server.
accepted_at(space, path) ==
    IF space.target # "Server" \/ space.scheme # "Basic" THEN entries
    ELSE [i \in DOMAIN entries |->
             IF entries[i].space = space
             THEN [entries[i] EXCEPT !.directories = Covering(@, directory_of(path))]
             ELSE entries[i]]

\* upfront_for: the entry with the deepest directory that covers the path, any of them when
\* several are as deep.
upfront_for(origin, path) ==
    LET Depths(e) == {Len(e.directories[i]) : i \in {j \in DOMAIN e.directories : IsPrefix(e.directories[j], directory_of(path))}}
        fit == {i \in DOMAIN entries :
                   /\ entries[i].space.target = "Server" /\ entries[i].space.scheme = "Basic"
                   /\ entries[i].space.origin = origin
                   /\ entries[i].credentials \in Secrets
                   /\ Depths(entries[i]) # {}}
    IN  {entries[i] : i \in {j \in fit : \A k \in fit :
            \A d \in Depths(entries[k]) : \E c \in Depths(entries[j]) : d <= c}}

-----------------------------------------------------------------------------
(* What the fetch stack does with it (HopChain::send).  Each call on the   *)
(* store takes its lock for itself.                                        *)

NoLogin == [pc |-> "idle", space |-> None, secret |-> None, path |-> None]

CredInit ==
    /\ entries = <<>> /\ proven = {} /\ raced = {}
    /\ login = [l \in Logins |-> NoLogin]

\* A store to a space meets a login that is between its own store and its accepted_at.
Racing(space) == IF \E m \in Logins : login[m].pc = "stored" /\ login[m].space = space THEN {space} ELSE {}

\* credentials_for_challenges: the first challenge for which the store, else the hook, has
\* something that makes a header is answered; hook: what it has for the scheme, if anything.
Challenged(l, asked, path, hook) ==
    LET Given(i) == LET known == credentials_for(protection_space(asked[i]))
                    IN  IF known = None THEN hook[asked[i].scheme] ELSE known
        Good(i) == Given(i) # None /\ header_value(Given(i)) # None
    IN  /\ login[l].pc = "idle"
        /\ \E i \in DOMAIN asked :
              /\ Good(i) /\ \A j \in 1..(i - 1) : ~Good(j)
              /\ login' = [login EXCEPT ![l] = [pc |-> "sent", space |-> protection_space(asked[i]),
                                               secret |-> Given(i), path |-> path]]
        /\ UNCHANGED <<entries, proven, raced>>

\* The party lets the request through: a password is remembered (AuthSlot::accepted).
LetThrough(l) ==
    LET x == login[l]
        basic == x.secret \in Secrets
    IN  /\ x.pc = "sent"
        /\ entries' = IF basic THEN store(x.space, x.secret) ELSE entries
        /\ login' = [login EXCEPT ![l] = IF basic THEN [x EXCEPT !.pc = "stored"] ELSE NoLogin]
        /\ proven' = IF ~basic \/ x.space.target # "Server" \/ x.space.scheme # "Basic" THEN proven
                     ELSE {p \in proven : p.space # x.space \/ p.secret = x.secret} \cup
                          {[space |-> x.space, secret |-> x.secret, directory |-> directory_of(x.path)]}
        /\ raced' = IF basic THEN raced \cup Racing(x.space) ELSE raced

\* ... and where.
AcceptedAt(l) ==
    /\ login[l].pc = "stored"
    /\ entries' = accepted_at(login[l].space, login[l].path)
    /\ login' = [login EXCEPT ![l] = NoLogin]
    /\ UNCHANGED <<proven, raced>>

\* It is challenged again: forget, whatever the space holds by now.
Rejected(l) ==
    LET space == login[l].space
    IN  /\ login[l].pc = "sent"
        /\ entries' = Dropped(space)
        /\ login' = [login EXCEPT ![l] = NoLogin]
        /\ proven' = {p \in proven : p.space # space} /\ raced' = raced \ {space}

\* The request fails, or was asked MAX_AUTH_ATTEMPTS times.
GivenUp(l) ==
    /\ login[l].pc = "sent"
    /\ login' = [login EXCEPT ![l] = NoLogin]
    /\ UNCHANGED <<entries, proven, raced>>

\* The embedder puts the answer of a password dialog in the store.
Seed(space, c) ==
    /\ entries' = store(space, c)
    /\ proven' = {p \in proven : p.space # space \/ p.secret = c}
    /\ raced' = raced \cup Racing(space)
    /\ UNCHANGED login

\* The user logs out: clear.
Clear == entries' = <<>> /\ proven' = {} /\ raced' = {} /\ UNCHANGED login

\* The spaces the embedder has passwords for.
Spaces == {protection_space(c) : c \in {d \in UNION {Range(parse_challenges(r)) : r \in Responses} :
                                           \E hook \in Hooks : hook[d.scheme] \in Secrets}}

Login(l) ==
    \/ \E r \in Responses :
          LET asked == parse_challenges(r)
          IN  \E path \in Paths, hook \in Hooks : Challenged(l, asked, path, hook)
    \/ LetThrough(l) \/ AcceptedAt(l) \/ Rejected(l) \/ GivenUp(l)

CredNext ==
    \/ \E l \in Logins : Login(l)
    \/ \E space \in Spaces, secret \in Secrets : Seed(space, secret)
    \/ Clear

CredSpec == CredInit /\ [][CredNext]_credVars

-----------------------------------------------------------------------------
(* Property.                                                               *)

\* Credentials go out unasked only to the server that let them in, Basic ones, for a path
\* below a directory where these very credentials were let in, and not after that server
\* turned them down, others took their place or the user logged out, however logins
\* overlap (auth.rs store, accepted_at, upfront_for).  The one exception is in the code: a
\* login notes its directory in a second call, and vouches then for whatever the space
\* was given in between (fetch.rs AuthSlot::accepted).
UpfrontWasProven ==
    \A r \in Responses, path \in Paths : \A e \in upfront_for(r.asker, path) :
        e.space \in raced \/ \E p \in proven :
            /\ p.secret = e.credentials /\ p.space = e.space
            /\ p.space.origin = r.asker
            /\ IsPrefix(p.directory, directory_of(path))
=============================================================================
