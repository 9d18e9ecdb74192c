------------------------------ MODULE Profiles ------------------------------
(***************************************************************************)
(* The profile directory of one server process (ProfileManager, Profile)   *)
(* and its copy in profiles.dat: what CONNECT and FOLLOW do to it, Sync    *)
(* line by line (std::endl flushes each line), and the reload at startup.  *)
(*                                                                         *)
(* With Overlap, handlers run at the same time and Sync, which takes no    *)
(* mutex, is called by several: each has the file open with a position of  *)
(* its own and writes one line a step.  Lines are taken to have the same   *)
(* length, so that they overwrite each other's lines and never halves of   *)
(* them; such a file is not read back here (no restarts with Overlap).     *)
(* A push_back is one step; what two of them at once do to a vector is in  *)
(* Server.                                                                 *)
(*                                                                         *)
(* A name may be any text: the clients cut blanks off its ends at most     *)
(* (client.cpp:21), nobody looks for blanks inside it or for commas.       *)
(***************************************************************************)
EXTENDS ProfileManager, FiniteSetsExt

CONSTANTS
    Strings,    \* strings without a blank or a comma
    Empty,      \* the empty one
    Connects,   \* CONNECT datagrams
    NameOf,     \* the user name in each of them
    Follows,    \* FOLLOW datagrams
    Who,        \* the user whose session the sender's address is in
    Whom,       \* the user name in the payload
    Overlap,    \* whether handlers may run at the same time
    CrashIn,    \* when the process may die: subset of {"rest", "sync"}
    MaxCrashes, \* bound: how often
    MaxGarbage  \* bound: an uninitialised numProfiles is at most this

\* A text is its words, with a blank between two of them, and a word is its
\* pieces, with a comma between two of them.
Word == Seq(Strings) \ {<<>>}
Texts == Seq(Word) \ {<<>>}
Lone(piece) == <<<<piece>>>>
NoName == Lone(Empty)
PlainNames == {Lone(piece) : piece \in Strings \ {Empty}}

ASSUME ProfilesAssumption ==
    /\ Empty \in Strings
    /\ NameOf \in [Connects -> Texts]
    /\ Who \in [Follows -> Texts] /\ Whom \in [Follows -> Texts]
    /\ Connects \cap Follows = {}
    /\ Overlap \in BOOLEAN
    /\ CrashIn \subseteq {"rest", "sync"}
    /\ MaxCrashes \in Nat /\ (Overlap => MaxCrashes = 0)
    /\ MaxGarbage \in Nat

VARIABLES
    up,         \* the process is running
    profiles,   \* ProfileManager::profiles
    exists,     \* profiles.dat exists
    file,       \* its lines
    online,     \* users with a session
    th,         \* the handler threads
    crashes,
    saved,      \* history: the lines a finished handler owes to the file
    torn        \* history: a crash interrupted a Sync

vars == <<up, profiles, exists, file, online, th, crashes, saved, torn>>
history == <<crashes, saved, torn>>

Threads == Connects \cup Follows

\* A handler: the loop it is in, over `end' profiles, the followers left, and
\* its position in the file.
At(pc) == [pc |-> pc, i |-> 0, end |-> 0, left |-> <<>>, pos |-> 0]
Done == At("done")
Goto(t, rec) == th' = [th EXCEPT ![t] = rec]

SyncPC == {"count", "name", "edge"}
Running(t) == th[t].pc \notin {"idle", "done"}

MayStart(t) == up /\ th[t].pc = "idle" /\ (Overlap \/ \A s \in Threads : ~Running(s))
Continue(t, pc) == up /\ th[t].pc = pc

Init ==
    /\ up = TRUE
    /\ profiles = <<>>
    /\ exists = FALSE /\ file = <<>>
    /\ online = {}
    /\ th = [t \in Threads |-> At("idle")]
    /\ crashes = 0
    /\ saved = {}
    /\ torn = FALSE

-----------------------------------------------------------------------------
(* The lines of the file.                                                  *)

Count(n)          == [kind |-> "count", n |-> n]
Name(handle)      == [kind |-> "name", handle |-> handle]
Edge(user, follower) == [kind |-> "edge", user |-> user, follower |-> follower]
Hole              == [kind |-> "hole"]

\* Each open file has a position of its own; a gap is filled with zeros.
WriteAt(pos, line) ==
    file' = [k \in 1 .. Max({pos, Len(file)}) |->
                IF k = pos THEN line ELSE IF k > Len(file) THEN Hole ELSE file[k]]

-----------------------------------------------------------------------------
(* The directory.                                                          *)

NewProfile(handle) == [handle |-> handle, followers |-> <<>>]

\* Seeded fault: any follower is new.
AnyFollower(dir, edge) == GetProfileByName(dir, edge.follower) # 0

\* AddFollower finds the follower's profile, and not in the user's list.  (If it finds
\* no profile it ends without a return: a value that nobody looks at.)
IsNew(dir, edge) ==
    LET follower == GetProfileByName(dir, edge.follower) IN
    /\ follower # 0
    /\ ~Contains(dir[GetProfileByName(dir, edge.user)].followers, follower)

\* Seeded faults: the last profile of the follower's name is pushed ...
PushLast(dir, edge) ==
    [dir EXCEPT ![GetProfileByName(dir, edge.user)].followers =
        Append(@, GetLastProfileByName(dir, edge.follower))]

\* ... or a pointer that was not set.
PushNull(dir, edge) ==
    [dir EXCEPT ![GetProfileByName(dir, edge.user)].followers = Append(@, 0)]

Push(dir, edge) ==
    [dir EXCEPT ![GetProfileByName(dir, edge.user)].followers =
        Append(@, GetProfileByName(dir, edge.follower))]

\* AddFollower(userHandle, false).
AddFollower(dir, edge) == IF IsNew(dir, edge) THEN Push(dir, edge) ELSE dir

-----------------------------------------------------------------------------
(* The reload.                                                             *)

\* The words of a line: the last of the user and the first of the follower have
\* a comma between them.
Words(line) ==
    IF line.kind = "name" THEN line.handle
    ELSE Front(line.user) \o <<Last(line.user) \o Head(line.follower)>>
         \o Tail(line.follower)

\* operator>> reads a word, whatever line it is in, and skips blanks.
SkipBlank(tokens, word) == IF word = <<Empty>> THEN tokens ELSE Append(tokens, word)

\* What can be read behind the count.
AllWords(lines) == FlattenSeq([k \in 1 .. Len(lines) - 1 |-> Words(lines[k + 1])])
Tokens(lines) == FoldLeft(SkipBlank, <<>>, AllWords(lines))

\* The profiles: a read past the end of the file leaves the previous name in the
\* variable, and sets eof, which skips the followers.
ReadNames(lines) ==
    LET tokens == Tokens(lines) IN
    [i \in 1 .. lines[1].n |->
        NewProfile(IF tokens = <<>> THEN NoName ELSE <<tokens[Min({i, Len(tokens)})]>>)]

ReadEdges(lines) ==
    LET tokens == Tokens(lines) IN
    IF Len(tokens) >= lines[1].n THEN SubSeq(tokens, lines[1].n + 1, Len(tokens)) ELSE <<>>

\* split(line, ','): no piece behind a comma at the end.
Split(token) == IF Last(token) = Empty THEN Front(token) ELSE token

\* profilesMap.at(user) throws when there is no such profile, and no server
\* starts.
KnownUser(dir, token) == GetProfileByName(dir, Lone(Split(token)[1])) # 0

\* Without a second piece splits[1] is read out of bounds: the process dies, as
\* it may at any time, or adds nobody.
ReadEdge(dir, token) ==
    LET splits == Split(token) IN
    IF Len(splits) < 2 THEN dir
    ELSE AddFollower(dir, Edge(Lone(splits[1]), Lone(splits[2])))

\* Seeded fault: the reload stops after the names.
ReadProfilesOnly(lines) == ReadNames(lines)

ReadProfiles(lines) == FoldLeft(ReadEdge, ReadNames(lines), ReadEdges(lines))

\* On an empty file numProfiles keeps the value it was not initialised with.
ReadProfilesFromFile ==
    IF ~exists THEN {<<>>}
    ELSE IF file = <<>>
    THEN {[i \in 1 .. n |-> NewProfile(NoName)] : n \in 0 .. MaxGarbage}
    ELSE IF \A token \in Range(ReadEdges(file)) : KnownUser(ReadNames(file), token)
    THEN {ReadProfiles(file)}
    ELSE {}

-----------------------------------------------------------------------------
(* CONNECT.                                                                *)

\* Seeded fault: CONNECT does not look for the profile.
ConnectWithoutLookup(c) ==
    /\ MayStart(c)
    /\ Goto(c, At("new"))
    /\ UNCHANGED <<up, profiles, exists, file, online, history>>

ConnectLookup(c) ==
    /\ MayStart(c)
    /\ IF GetProfileByName(profiles, NameOf[c]) = 0
       THEN Goto(c, At("new")) /\ UNCHANGED online
       ELSE Goto(c, Done) /\ online' = online \cup {NameOf[c]}
    /\ UNCHANGED <<up, profiles, exists, file, history>>

\* NewProfile, up to the unlock.
ConnectNewProfile(c) ==
    /\ Continue(c, "new")
    /\ profiles' = Append(profiles, NewProfile(NameOf[c]))
    /\ Goto(c, At("open"))
    /\ UNCHANGED <<up, exists, file, online, history>>

-----------------------------------------------------------------------------
(* FOLLOW.                                                                 *)

\* Nobody follows himself or a user without a profile.
MayFollow(f) ==
    /\ Who[f] \in online /\ Whom[f] # Who[f]
    /\ GetProfileByName(profiles, Whom[f]) # 0

Following(f) == Edge(Whom[f], Who[f])

\* Only a new follower is pushed and saved.  The profiles that were found now are
\* the ones that their names find later.
Follow(f) ==
    /\ MayStart(f)
    /\ Goto(f, IF MayFollow(f) /\ IsNew(profiles, Following(f)) THEN At("push") ELSE Done)
    /\ UNCHANGED <<up, profiles, exists, file, online, history>>

\* Seeded fault: the new follower is not saved.
FollowWithoutSync(f) ==
    /\ Continue(f, "push")
    /\ profiles' = Push(profiles, Following(f))
    /\ Goto(f, Done)
    /\ UNCHANGED <<up, exists, file, online, history>>

FollowPush(f) ==
    /\ Continue(f, "push")
    /\ profiles' = Push(profiles, Following(f))
    /\ Goto(f, At("open"))
    /\ UNCHANGED <<up, exists, file, online, history>>

-----------------------------------------------------------------------------
(* Sync, called by NewProfile and by AddFollower.                          *)

\* ios::out truncates.
SyncOpen(t) ==
    /\ Continue(t, "open")
    /\ exists' = TRUE /\ file' = <<>>
    /\ Goto(t, [At("count") EXCEPT !.pos = 1])
    /\ UNCHANGED <<up, profiles, online, history>>

\* Seeded fault: the count is one too small, and a name is read as a follower.
SyncCountOneLess(t) ==
    /\ Continue(t, "count")
    /\ WriteAt(th[t].pos, Count(Len(profiles) - 1))
    /\ Goto(t, [At("name") EXCEPT !.i = 1, !.end = Len(profiles), !.pos = th[t].pos + 1])
    /\ UNCHANGED <<up, profiles, exists, online, history>>

\* Both loops are range-fors, which take begin() and end() once.
SyncCount(t) ==
    /\ Continue(t, "count")
    /\ WriteAt(th[t].pos, Count(Len(profiles)))
    /\ Goto(t, [At("name") EXCEPT !.i = 1, !.end = Len(profiles), !.pos = th[t].pos + 1])
    /\ UNCHANGED <<up, profiles, exists, online, history>>

SyncName(t) ==
    /\ Continue(t, "name")
    /\ WriteAt(th[t].pos, Name(profiles[th[t].i].handle))
    /\ IF th[t].i < th[t].end
       THEN Goto(t, [th[t] EXCEPT !.i = @ + 1, !.pos = @ + 1])
       ELSE Goto(t, [pc |-> "edge", i |-> 1, end |-> Len(profiles),
                     left |-> profiles[1].followers, pos |-> th[t].pos + 1])
    /\ UNCHANGED <<up, profiles, exists, online, history>>

\* The inner loop runs over a copy of the followers.
SyncEdge(t) ==
    /\ Continue(t, "edge") /\ th[t].left # <<>>
    /\ WriteAt(th[t].pos, Edge(profiles[th[t].i].handle,
                               profiles[Head(th[t].left)].handle))
    /\ Goto(t, [th[t] EXCEPT !.left = Tail(@), !.pos = @ + 1])
    /\ UNCHANGED <<up, profiles, exists, online, history>>

SyncNextProfile(t) ==
    /\ Continue(t, "edge") /\ th[t].left = <<>> /\ th[t].i < th[t].end
    /\ Goto(t, [th[t] EXCEPT !.i = @ + 1,
                             !.left = profiles[th[t].i + 1].followers])
    /\ UNCHANGED <<up, profiles, exists, file, online, history>>

\* close(); the handler returns, CONNECT after StartSession.
SyncClose(t) ==
    /\ Continue(t, "edge") /\ th[t].left = <<>> /\ th[t].i = th[t].end
    /\ Goto(t, Done)
    /\ IF t \in Connects
       THEN /\ online' = online \cup {NameOf[t]}
            /\ saved' = saved \cup {Name(NameOf[t])}
       ELSE /\ online' = online
            /\ saved' = saved \cup {Following(t)}
    /\ UNCHANGED <<up, profiles, exists, file, crashes, torn>>

-----------------------------------------------------------------------------
(* The process.                                                            *)

InSync == \E t \in Threads : th[t].pc \in SyncPC

Crash ==
    /\ up /\ crashes < MaxCrashes
    /\ IF InSync THEN "sync" \in CrashIn ELSE "rest" \in CrashIn
    /\ up' = FALSE
    /\ crashes' = crashes + 1
    /\ torn' = (torn \/ InSync)
    /\ profiles' = <<>> /\ online' = {}
    /\ th' = [t \in Threads |-> IF Running(t) THEN Done ELSE th[t]]
    /\ UNCHANGED <<exists, file, saved>>

\* ProfileManager's constructor.
Restart ==
    /\ ~up
    /\ up' = TRUE
    /\ profiles' \in ReadProfilesFromFile
    /\ UNCHANGED <<exists, file, online, th, history>>

\* All is done, or no server starts.
Quiescent ==
    /\ \/ \A t \in Threads : th[t].pc = "done"
       \/ ~up /\ ReadProfilesFromFile = {}
    /\ UNCHANGED vars

Next ==
    \/ \E c \in Connects : ConnectLookup(c) \/ ConnectNewProfile(c)
    \/ \E f \in Follows : Follow(f) \/ FollowPush(f)
    \/ \E t \in Threads :
        \/ SyncOpen(t) \/ SyncCount(t) \/ SyncName(t)
        \/ SyncEdge(t) \/ SyncNextProfile(t) \/ SyncClose(t)
    \/ Crash
    \/ Restart
    \/ Quiescent

Spec == Init /\ [][Next]_vars

-----------------------------------------------------------------------------
(* Properties.                                                             *)

Profile == [handle : Texts, followers : Seq(Nat \ {0})]
Line == [kind : {"count"}, n : Nat] \cup [kind : {"name"}, handle : Texts]
        \cup [kind : {"edge"}, user : Texts, follower : Texts] \cup {Hole}

\* The type of every variable.
TypeOK ==
    /\ up \in BOOLEAN
    /\ profiles \in Seq(Profile)
    /\ exists \in BOOLEAN
    /\ file \in Seq(Line)
    /\ online \subseteq Texts
    /\ th \in [Threads -> [pc : SyncPC \cup {"idle", "new", "push", "open", "done"}, i : Nat,
                           end : Nat, left : Seq(Nat \ {0}), pos : Nat]]
    /\ crashes \in 0 .. MaxCrashes
    /\ saved \subseteq Line
    /\ torn \in BOOLEAN

\* Some request came with a name that is empty or has a blank or a comma in it.
Odd ==
    \/ \E c \in Connects : th[c].pc # "idle" /\ NameOf[c] \notin PlainNames
    \/ \E f \in Follows : th[f].pc # "idle" /\ Whom[f] \notin PlainNames

\* The names and the followers that lines speak of are in a directory.
Holds(dir, lines) ==
    \A line \in lines :
        IF line.kind = "name" THEN GetProfileByName(dir, line.handle) # 0
        ELSE LET user == GetProfileByName(dir, line.user) IN
             /\ user # 0
             /\ Contains(dir[user].followers, GetProfileByName(dir, line.follower))

\* "permite que a lista de perfis seja reconstruida por um arquivo em disco"
\* (RELATORIO.md:42): a profile and a follower whose handler finished are in the
\* directory of the process that runs now.
NothingForgotten == up => Holds(profiles, saved)

\* Only a crash inside Sync and a name that is no single word make the directory
\* forget: otherwise profiles.dat holds all that finished handlers saved, and the
\* reload finds it.
ForgottenOnlyIfTorn == torn \/ Odd \/ NothingForgotten

\* "permite que a lista de perfis seja reconstruida por um arquivo em disco"
\* (RELATORIO.md:42): the server starts again.  Unless a name is no single word,
\* every line that is read as a follower, of a file that was torn any number of
\* times too, splits in two of which the first is a profile (splits[1] and
\* profilesMap.at, ProfileManager.cpp:66,68).
ReloadDefined ==
    (~up /\ exists /\ file # <<>>) =>
        \/ Odd
        \/ \A token \in Range(ReadEdges(file)) :
                Len(Split(token)) >= 2 /\ KnownUser(ReadNames(file), token)

\* What profiles.dat holds for a directory: the names, then the followers.
EdgesOf(dir, i) ==
    [k \in DOMAIN dir[i].followers |->
        Edge(dir[i].handle, dir[dir[i].followers[k]].handle)]
EdgesUpTo(dir, i) == FlattenSeq([j \in 1 .. i |-> EdgesOf(dir, j)])
Saved(dir) ==
    <<Count(Len(dir))>>
    \o [i \in DOMAIN dir |-> Name(dir[i].handle)]
    \o EdgesUpTo(dir, Len(dir))

\* "salva os usuarios e seus seguidores em disco" (RELATORIO.md:42): when no
\* handler runs, the file holds the directory that is in memory, unless that
\* was read from a file that a crash had torn, or a name is no single word.
FileMatches ==
    (up /\ exists /\ ~torn /\ ~Odd /\ \A t \in Threads : ~Running(t)) =>
        file = Saved(profiles)

\* The profiles are "acessado por cada handler de maneira sincronizada"
\* (RELATORIO.md:18): a user has one profile.  The reload of a torn file, or of
\* one with a name that is no single word, may repeat a name.
HandlesUnique ==
    torn \/ Odd \/ \A i, j \in DOMAIN profiles :
        profiles[i].handle = profiles[j].handle => i = j

\* "Check if it's already a follower" (Profile.cpp:22): nobody is twice in a
\* list of followers, and so nobody gets a post twice.
FollowersUnique ==
    \A i \in DOMAIN profiles : IsInjective(profiles[i].followers)

\* A follower in a list is the profile that the name of that user finds: the
\* one later CONNECTs give their session to, also after the reload of a file in
\* which a name is repeated.
FollowersFound ==
    \A i \in DOMAIN profiles : \A f \in Range(profiles[i].followers) :
        GetProfileByName(profiles, profiles[f].handle) = f

-----------------------------------------------------------------------------
(* Inductive invariants.                                                   *)

\* Lists of followers in any directory: each is the profile that its name finds,
ListsOK(dir) ==
    \A i \in DOMAIN dir : \A f \in Range(dir[i].followers) :
        f \in DOMAIN dir /\ GetProfileByName(dir, dir[f].handle) = f

\* and, when handlers do not overlap, nobody is there twice.
ListsOnce(dir) == \A i \in DOMAIN dir : IsInjective(dir[i].followers)

\* Where a handler is, and with which profiles.
Inside(t) ==
    LET h == th[t] IN
    /\ Running(t) => up
    /\ h.pc = "new" => t \in Connects
    /\ h.pc = "push" => /\ t \in Follows
                        /\ GetProfileByName(profiles, Whom[t]) # 0
                        /\ GetProfileByName(profiles, Who[t]) # 0
    /\ h.pc \in SyncPC \cup {"open"} => profiles # <<>>
    /\ h.pc \in {"name", "edge"} => h.i \in 1 .. h.end /\ h.end <= Len(profiles)
    /\ h.pc = "edge" => Range(h.left) \subseteq DOMAIN profiles

HandlersInside == \A t \in Threads : Inside(t)

\* Without overlap, one handler runs and writes the file from its first line to
\* its last, with the directory it found.
Alone == \A s, t \in Threads : Running(s) /\ Running(t) => s = t

Writing(t) ==
    LET h == th[t] IN
    /\ h.pc = "push" => IsNew(profiles, Following(t))
    /\ h.pc \in SyncPC => h.pos = Len(file) + 1
    /\ h.pc = "count" => h.pos = 1
    /\ h.pc \in {"name", "edge"} =>
        file # <<>> /\ file[1].n = h.end /\ h.end = Len(profiles)
    /\ h.pc = "name" => h.pos = h.i + 1
    /\ h.pc = "edge" => h.pos >= h.end + 2

\* So that even a torn file has a count, and then names and edges.
FileShape ==
    \A k \in DOMAIN file :
        IF k = 1 THEN file[k] \in [kind : {"count"}, n : Nat]
        ELSE file[k] \in Line /\ file[k].kind \in {"name", "edge"}

FileInv ==
    ~Overlap => Alone /\ FileShape /\ ListsOnce(profiles) /\ \A t \in Threads : Writing(t)

\* The inductive invariant behind FollowersUnique and FollowersFound.
ListsInv == TypeOK /\ ListsOK(profiles) /\ HandlersInside /\ FileInv /\ (Overlap => up)

\* Without overlap, a torn file or an odd name, a directory has one profile of
\* each user in it.
OneEach(dir) ==
    /\ \A i \in DOMAIN dir : dir[i].handle \in PlainNames
    /\ \A i, j \in DOMAIN dir : dir[i].handle = dir[j].handle => i = j

\* What a handler has added to the directory, or is about to add.
Added(t) == IF t \in Connects THEN Name(NameOf[t]) ELSE Following(t)

Adding(t) ==
    /\ th[t].pc = "new" => GetProfileByName(profiles, NameOf[t]) = 0
    /\ th[t].pc \in SyncPC \cup {"open"} => Holds(profiles, {Added(t)})

\* A handler has written the first lines of what it has to save, and the
\* followers that are left are the last ones of their profile.
Prefix(t) ==
    LET h == th[t]
        all == Saved(profiles)
    IN
    /\ h.pc \in SyncPC =>
        /\ exists /\ Len(file) <= Len(all) /\ \A k \in 1 .. Len(file) : file[k] = all[k]
    /\ h.pc = "edge" =>
        LET followers == profiles[h.i].followers
            skipped == Len(followers) - Len(h.left)
        IN  /\ skipped >= 0 /\ \A j \in 1 .. Len(h.left) : h.left[j] = followers[skipped + j]
            /\ h.pos + Len(h.left) = Len(profiles) + 2 + Len(EdgesUpTo(profiles, h.i))

\* Between two Syncs the file reads back as the directory that was saved.
Reloads ==
    LET dir == ReadProfiles(file) IN
    /\ file = Saved(dir)
    /\ dir \in Seq(Profile) /\ ListsOK(dir) /\ ListsOnce(dir) /\ OneEach(dir)
    /\ Holds(dir, saved)
    /\ (up /\ \A t \in Threads : th[t].pc # "open") => profiles = dir

\* The inductive invariant behind FileMatches, HandlesUnique and
\* ForgottenOnlyIfTorn, for handlers that do not overlap.
Intact ==
    /\ OneEach(profiles)
    /\ up => Holds(profiles, saved)
    /\ \A t \in Threads : Adding(t) /\ Prefix(t)
    /\ (~exists /\ \A t \in Threads : th[t].pc # "open") => profiles = <<>>
    /\ ~exists => saved = {}
    /\ (exists /\ ~InSync) => Reloads

SavedInv == torn \/ Odd \/ Intact

=============================================================================
