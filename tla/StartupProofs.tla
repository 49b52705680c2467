--------------------------- MODULE StartupProofs ----------------------------
(***************************************************************************)
(* Theorems about Startup, for command lines and configuration files of    *)
(* any length.                                                             *)
(***************************************************************************)
EXTENDS Startup, ConfigProofs

-----------------------------------------------------------------------------
(* What has been said by the options read so far.                           *)

NamesUpTo(n) == FlattenSeq([i \in 1..n |-> NamesOf(argv[i])])
ProgramsUpTo(n) == FlattenSeq([i \in 1..n |-> ProgramsOf(argv[i])])

\* The valid names of the readable files, and the programs there may be.
GoodNames ==
  {n \in UNION {Range(opt.arg.workspaces) : opt \in {o \in Range(argv) : Readable(o)}} : NameValid(n)}
AllPrograms == Programs \cup UNION {Range(f.autostart) : f \in Files}

LEMMA ReverseConcat ==
  ASSUME NEW S, NEW s \in Seq(S), NEW t \in Seq(S)
  PROVE  Reverse(s \o t) = Reverse(t) \o Reverse(s)
<1> DEFINE a == s \o t
           rs == Reverse(s)
           rt == Reverse(t)
           l == rt \o rs
           M == Len(s)
           N == Len(t)
<1>1. /\ M \in Nat /\ N \in Nat
      /\ a \in Seq(S) /\ Len(a) = M + N
      /\ \A i \in 1..M : a[i] = s[i]
      /\ \A i \in 1..N : a[M + i] = t[i]
  OBVIOUS
<1>2. /\ rs \in Seq(S) /\ Len(rs) = M /\ \A i \in 1..M : rs[i] = s[M + 1 - i]
      /\ rt \in Seq(S) /\ Len(rt) = N /\ \A i \in 1..N : rt[i] = t[N + 1 - i]
  BY ReverseSeq
<1> HIDE DEF a, rs, rt
<1>3. /\ l \in Seq(S) /\ Len(l) = N + M
      /\ \A i \in 1..N : l[i] = rt[i]
      /\ \A i \in 1..M : l[N + i] = rs[i]
  <2>1. /\ rs \in Seq(S) /\ rt \in Seq(S) /\ Len(rs) = M /\ Len(rt) = N
    BY <1>2
  <2>2. /\ l \in Seq(S) /\ Len(l) = Len(rt) + Len(rs)
        /\ \A i \in 1..Len(rt) : l[i] = rt[i]
        /\ \A i \in 1..Len(rs) : l[Len(rt) + i] = rs[i]
    BY <2>1
  <2> HIDE DEF l, M, N
  <2> QED BY <2>1, <2>2
<1>4. /\ Reverse(a) \in Seq(S) /\ Len(Reverse(a)) = Len(a)
      /\ \A i \in 1..Len(a) : Reverse(a)[i] = a[Len(a) + 1 - i]
  BY <1>1, ReverseSeq
<1> HIDE DEF l, M, N
<1>5. ASSUME NEW i \in 1..(M + N) PROVE Reverse(a)[i] = l[i]
  <2>1. Reverse(a)[i] = a[M + N + 1 - i]
    BY <1>1, <1>4
  <2>2. CASE i <= N
    <3>1. i \in 1..N /\ N + 1 - i \in 1..N /\ M + (N + 1 - i) = M + N + 1 - i
      BY <1>1, <2>2
    <3>2. a[M + (N + 1 - i)] = t[N + 1 - i]
      BY <1>1, <3>1
    <3> QED BY <1>2, <1>3, <2>1, <3>1, <3>2
  <2>3. CASE i > N
    <3>1. i - N \in 1..M /\ N + (i - N) = i /\ M + N + 1 - i \in 1..M
          /\ M + 1 - (i - N) = M + N + 1 - i
      BY <1>1, <2>3
    <3>2. a[M + N + 1 - i] = s[M + N + 1 - i]
      BY <1>1, <3>1
    <3>3. l[N + (i - N)] = rs[i - N]
      BY <1>3, <3>1
    <3>4. rs[i - N] = s[M + 1 - (i - N)]
      BY <1>2, <3>1
    <3> QED BY <2>1, <3>1, <3>2, <3>3, <3>4
  <2> QED BY <1>1, <2>2, <2>3
<1>6. Reverse(a) = l
  BY <1>1, <1>3, <1>4, <1>5
<1> QED BY <1>6 DEF a, l, rs, rt

\* The head of one sequence moved to the end of the one before it.
LEMMA HeadMoved ==
  ASSUME NEW S, NEW s \in Seq(S), NEW t \in Seq(S), t # <<>>
  PROVE  Append(s, Head(t)) \o Tail(t) = s \o t
<1> DEFINE M == Len(s)
           N == Len(t)
           a == Append(s, Head(t))
           u == Tail(t)
           l == a \o u
           r == s \o t
<1>1. /\ M \in Nat /\ N \in Nat /\ N > 0 /\ Head(t) \in S /\ Head(t) = t[1]
      /\ u \in Seq(S) /\ Len(u) = N - 1 /\ \A i \in 1..(N - 1) : u[i] = t[i + 1]
  OBVIOUS
<1>2. /\ a \in Seq(S) /\ Len(a) = M + 1 /\ a[M + 1] = t[1] /\ \A i \in 1..M : a[i] = s[i]
  BY <1>1
<1>3. /\ r \in Seq(S) /\ Len(r) = M + N
      /\ \A i \in 1..M : r[i] = s[i]
      /\ \A i \in 1..N : r[M + i] = t[i]
  OBVIOUS
<1> HIDE DEF a, u
<1>4. /\ l \in Seq(S) /\ Len(l) = Len(a) + Len(u)
      /\ \A i \in 1..Len(a) : l[i] = a[i]
      /\ \A i \in 1..Len(u) : l[Len(a) + i] = u[i]
  <2>1. a \in Seq(S) /\ u \in Seq(S)
    BY <1>1, <1>2
  <2> QED BY <2>1
<1> HIDE DEF l, r, M, N
<1>5. Len(l) = M + N /\ Len(r) = M + N
  BY <1>1, <1>2, <1>3, <1>4
<1>6. ASSUME NEW i \in 1..(M + N) PROVE l[i] = r[i]
  <2>1. CASE i <= M
    <3>1. i \in 1..M /\ i \in 1..(M + 1)
      BY <1>1, <2>1
    <3> QED BY <1>2, <1>3, <1>4, <3>1
  <2>2. CASE i = M + 1
    <3>1. i \in 1..(M + 1) /\ 1 \in 1..N
      BY <1>1, <2>2
    <3>2. l[i] = t[1]
      BY <1>2, <1>4, <2>2, <3>1
    <3>3. r[M + 1] = t[1]
      BY <1>3, <3>1
    <3> QED BY <2>2, <3>2, <3>3
  <2>3. CASE i > M + 1
    <3> DEFINE j == i - (M + 1)
    <3>1. j \in 1..(N - 1) /\ (M + 1) + j = i /\ j + 1 \in 1..N /\ M + (j + 1) = i
      BY <1>1, <2>3
    <3> HIDE DEF j
    <3>2. l[(M + 1) + j] = u[j] /\ u[j] = t[j + 1]
      BY <1>1, <1>2, <1>4, <3>1
    <3>3. r[M + (j + 1)] = t[j + 1]
      BY <1>3, <3>1
    <3> QED BY <3>1, <3>2, <3>3
  <2> QED BY <1>1, <2>1, <2>2, <2>3
<1>7. l = r
  BY <1>3, <1>4, <1>5, <1>6
<1> QED BY <1>7 DEF l, r, a, u

LEMMA FilesOf ==
  ASSUME NEW opt \in Options, Readable(opt)
  PROVE  /\ opt.arg \in Files
         /\ opt.arg.workspaces \in Seq(Names)
         /\ opt.arg.autostart \in Seq(AllPrograms)
<1>1. opt.arg \in Files
  BY DEF Options, Readable
<1>2. opt.arg.workspaces \in Seq(Names) /\ opt.arg.autostart \in Seq(Range(opt.arg.autostart))
  BY <1>1, StartupAssumption
<1>3. Range(opt.arg.autostart) \subseteq AllPrograms
  BY <1>1 DEF AllPrograms
<1> QED BY <1>1, <1>2, <1>3

\* What one option says, typed.
LEMMA SaidByOption ==
  ASSUME argv \in Seq(Options), NEW i \in 1..Len(argv)
  PROVE  NamesOf(argv[i]) \in Seq(GoodNames) /\ ProgramsOf(argv[i]) \in Seq(AllPrograms)
<1> DEFINE opt == argv[i]
<1>1. opt \in Options /\ opt \in Range(argv)
  BY DEF Range
<1> HIDE DEF opt
<1>2. CASE ~Readable(opt)
  BY <1>2 DEF NamesOf, ProgramsOf, opt
<1>3. CASE Readable(opt)
  <2> DEFINE names == opt.arg.workspaces
             k == Kept(names, ValidNames(names))
  <2>1. names \in Seq(Names) /\ opt.arg.autostart \in Seq(AllPrograms)
    BY <1>1, <1>3, FilesOf
  <2>2. k \in Seq(Names)
    <3>1. <<>> \in Seq(Names)
      OBVIOUS
    <3> QED BY <2>1, <3>1, LoadedReversesKept
  <2>3. ASSUME NEW p \in 1..Len(k) PROVE k[p] \in GoodNames
    <3>1. PICK j \in 1..Len(names) : j \in ValidNames(names) /\ k[p] = names[j]
      BY <2>1, KeptIsValid
    <3>2. NameValid(names[j]) /\ names[j] \in Range(names)
      BY <2>1, <3>1 DEF ValidNames, Range
    <3> QED BY <1>1, <1>3, <3>1, <3>2 DEF GoodNames
  <2> HIDE DEF k
  <2>4. k \in Seq(GoodNames)
    BY <2>2, <2>3
  <2>5. Kept(opt.arg.autostart, ValidPrograms(opt.arg.autostart)) \in Seq(AllPrograms)
    <3>1. <<>> \in Seq(AllPrograms)
      OBVIOUS
    <3> QED BY <2>1, <3>1, LoadedReversesKept
  <2> QED BY <1>3, <2>4, <2>5 DEF NamesOf, ProgramsOf, opt, k
<1> QED BY <1>2, <1>3

\* What the options say, one option more.
LEMMA SaidByOneMore ==
  ASSUME argv \in Seq(Options), NEW n \in Nat, n + 1 <= Len(argv)
  PROVE  /\ NamesUpTo(n) \in Seq(GoodNames)
         /\ NamesUpTo(n + 1) = NamesUpTo(n) \o NamesOf(argv[n + 1])
         /\ ProgramsUpTo(n) \in Seq(AllPrograms)
         /\ ProgramsUpTo(n + 1) = ProgramsUpTo(n) \o ProgramsOf(argv[n + 1])
<1>1. \A i \in 1..(n + 1) : i \in 1..Len(argv)
  OBVIOUS
<1>2. \A i \in 1..(n + 1) : NamesOf(argv[i]) \in Seq(GoodNames)
  BY <1>1, SaidByOption
<1>3. \A i \in 1..(n + 1) : ProgramsOf(argv[i]) \in Seq(AllPrograms)
  BY <1>1, SaidByOption
<1> DEFINE ss == [i \in 1..n |-> NamesOf(argv[i])]
           ps == [i \in 1..n |-> ProgramsOf(argv[i])]
<1>4. /\ ss \in Seq(Seq(GoodNames))
      /\ [i \in 1..(n + 1) |-> NamesOf(argv[i])] = Append(ss, NamesOf(argv[n + 1]))
  BY <1>2
<1>5. /\ ps \in Seq(Seq(AllPrograms))
      /\ [i \in 1..(n + 1) |-> ProgramsOf(argv[i])] = Append(ps, ProgramsOf(argv[n + 1]))
  BY <1>3
<1>6. NamesOf(argv[n + 1]) \in Seq(GoodNames) /\ ProgramsOf(argv[n + 1]) \in Seq(AllPrograms)
  BY <1>2, <1>3
<1>7. NamesUpTo(n) = FlattenSeq(ss) /\ ProgramsUpTo(n) = FlattenSeq(ps)
  BY DEF NamesUpTo, ProgramsUpTo
<1> HIDE DEF ss, ps
<1>8. /\ FlattenSeq(ss) \in Seq(GoodNames)
      /\ NamesUpTo(n + 1) = FlattenSeq(ss) \o NamesOf(argv[n + 1])
  BY <1>4, <1>6, FlattenAppend DEF NamesUpTo
<1>9. /\ FlattenSeq(ps) \in Seq(AllPrograms)
      /\ ProgramsUpTo(n + 1) = FlattenSeq(ps) \o ProgramsOf(argv[n + 1])
  BY <1>5, <1>6, FlattenAppend DEF ProgramsUpTo
<1> QED BY <1>7, <1>8, <1>9

-----------------------------------------------------------------------------
(* The inductive invariant.                                                 *)

Types ==
  /\ pc \in Places
  /\ argv \in Seq(Options)
  /\ optind \in 1..Len(argv) + 1
  /\ startup_cmd \in Programs \cup {NULL}
  /\ workspaces \in Seq([name : STRING, id : Nat])
  /\ config.workspaces \in Seq(GoodNames)
  /\ config.autostart \in Seq(AllPrograms)
  /\ todo \in Seq(Range(IF pc = "autostart" THEN config.autostart ELSE config.workspaces))

\* The process died in config_load_from_file, before the options were all read.
CutShort == pc = "aborted" /\ optind <= Len(argv)

\* The lists of the configuration hold what the options read so far say, last
\* first.
FilesLoaded ==
  /\ config.workspaces = Reverse(NamesUpTo(optind - 1))
  /\ config.autostart = Reverse(ProgramsUpTo(optind - 1))
  /\ pc \notin {"options", "usage"} /\ ~CutShort => optind = Len(argv) + 1
  /\ CutShort => LongPath(argv[optind])
  /\ pc \in {"options", "setup"} => workspaces = <<>> /\ todo = <<>>

\* The workspaces are made from the list's head on, each in front of the ones
\* before it.
WorkspacesMade ==
  /\ Len(workspaces) <= Len(config.workspaces)
  /\ \A i \in 1..Len(workspaces) :
       workspaces[i] = [name |-> config.workspaces[Len(workspaces) + 1 - i].name,
                        id |-> Len(workspaces) + 1 - i]
  /\ pc \in {"workspaces", "aborted"} /\ ~CutShort =>
       /\ Len(workspaces) + Len(todo) = Len(config.workspaces)
       /\ \A i \in 1..Len(todo) : todo[i] = config.workspaces[Len(workspaces) + i]
  /\ pc = "aborted" /\ ~CutShort => todo # <<>> /\ Head(todo).length >= NameRoom
  /\ HasWorkspaces => Len(workspaces) = Len(config.workspaces) /\ active = CreatedLast(workspaces)
  /\ ~HasWorkspaces /\ pc # "failed" => active = NULL
  /\ active \in {NULL, CreatedLast(workspaces)}

First == IF startup_cmd = NULL THEN <<>> ELSE <<startup_cmd>>

\* What was started and what is still to start make up the whole.
ProgramsStarted ==
  /\ pc \in {"options", "setup", "workspaces", "backend", "startup"} => started = <<>>
  /\ pc \in {"autostart", "running"} =>
       started \in Seq(AllPrograms) /\ started \o todo = First \o config.autostart
  /\ pc = "running" => todo = <<>>

IInv == Types /\ FilesLoaded /\ WorkspacesMade /\ ProgramsStarted

-----------------------------------------------------------------------------

LEMMA InitIInv == Init => IInv
<1> SUFFICES ASSUME Init PROVE IInv
  OBVIOUS
<1>1. argv \in Seq(Options)
  <2>1. PICK m \in 0..MaxOptions : argv \in [1..m -> Options]
    BY DEF Init, SeqOf
  <2> QED BY <2>1, StartupAssumption
<1>2. /\ pc = "options" /\ optind = 1 /\ startup_cmd = NULL /\ workspaces = <<>> /\ active = NULL
      /\ todo = <<>> /\ started = <<>> /\ config.workspaces = <<>> /\ config.autostart = <<>>
  BY DEF Init, EmptyConfig
<1>3. Types
  BY <1>1, <1>2 DEF Types, Places
<1>4. FilesLoaded
  <2>1. [i \in 1..0 |-> NamesOf(argv[i])] = <<>> /\ [i \in 1..0 |-> ProgramsOf(argv[i])] = <<>>
    OBVIOUS
  <2>2. FlattenSeq(<<>>) = <<>> /\ Reverse(<<>>) = <<>>
    BY DEF FlattenSeq, Reverse
  <2>3. optind - 1 = 0
    BY <1>2
  <2> QED BY <1>2, <2>1, <2>2, <2>3 DEF CutShort, FilesLoaded, NamesUpTo, ProgramsUpTo
<1>5. WorkspacesMade /\ ProgramsStarted
  BY <1>2 DEF CutShort, WorkspacesMade, ProgramsStarted, HasWorkspaces
<1> QED BY <1>3, <1>4, <1>5 DEF IInv

\* Reading one more option keeps the lists of the configuration what they are.
LEMMA ConfigAfterOption ==
  ASSUME IInv, ReadOption
  PROVE  /\ config'.workspaces = Reverse(NamesUpTo(optind))
         /\ config'.autostart = Reverse(ProgramsUpTo(optind))
         /\ NamesUpTo(optind) \in Seq(GoodNames)
         /\ ProgramsUpTo(optind) \in Seq(AllPrograms)
<1> DEFINE n == optind - 1
           opt == argv[optind]
<1>1. /\ argv \in Seq(Options) /\ n \in Nat /\ n + 1 = optind /\ n + 1 <= Len(argv)
      /\ optind \in 1..Len(argv)
  BY DEF IInv, Types, ReadOption
<1>2. config.workspaces = Reverse(NamesUpTo(n)) /\ config.autostart = Reverse(ProgramsUpTo(n))
  BY DEF IInv, CutShort, FilesLoaded
<1>3. opt \in Options
  BY <1>1
<1> HIDE DEF n
<1>4. /\ NamesUpTo(n) \in Seq(GoodNames)
      /\ NamesUpTo(optind) = NamesUpTo(n) \o NamesOf(opt)
      /\ ProgramsUpTo(n) \in Seq(AllPrograms)
      /\ ProgramsUpTo(optind) = ProgramsUpTo(n) \o ProgramsOf(opt)
  BY <1>1, SaidByOneMore
<1>5. NamesOf(opt) \in Seq(GoodNames) /\ ProgramsOf(opt) \in Seq(AllPrograms)
  BY <1>1, SaidByOption
<1>6. config' = IF Readable(opt) THEN LoadFile(config, opt.arg) ELSE config
  <2>1. opt.option \in {"c", "s", "h"}
    BY <1>3 DEF Options
  <2>2. CASE opt.option = "c"
    BY <2>2 DEF ReadOption, Readable, LoadFile
  <2>3. CASE opt.option = "s"
    BY <2>3 DEF ReadOption, Readable
  <2>4. CASE opt.option = "h"
    BY <2>4 DEF ReadOption, Readable
  <2> QED BY <2>1, <2>2, <2>3, <2>4
<1> HIDE DEF opt
<1>7. CASE ~Readable(opt)
  <2>1. NamesOf(opt) = <<>> /\ ProgramsOf(opt) = <<>>
    BY <1>7 DEF NamesOf, ProgramsOf
  <2>2. NamesUpTo(optind) = NamesUpTo(n) /\ ProgramsUpTo(optind) = ProgramsUpTo(n)
    BY <1>4, <2>1
  <2> QED BY <1>2, <1>4, <1>6, <1>7, <2>2
<1>8. CASE Readable(opt)
  <2> DEFINE names == opt.arg.workspaces
             programs == opt.arg.autostart
  <2>1. names \in Seq(Names) /\ programs \in Seq(AllPrograms)
    BY <1>3, <1>8, FilesOf
  <2>2. config.workspaces \in Seq(Names) /\ config.autostart \in Seq(AllPrograms)
    <3>1. GoodNames \subseteq Names
      <4>1. ASSUME NEW o \in Range(argv), Readable(o) PROVE Range(o.arg.workspaces) \subseteq Names
        <5>1. o \in Options
          BY <1>1 DEF Range
        <5>2. o.arg.workspaces \in Seq(Names)
          BY <4>1, <5>1, FilesOf
        <5> QED BY <5>2 DEF Range
      <4> QED BY <4>1 DEF GoodNames
    <3>2. config.workspaces \in Seq(GoodNames) /\ config.autostart \in Seq(AllPrograms)
      BY DEF IInv, Types
    <3> QED BY <3>1, <3>2
  <2>3. /\ config'.workspaces = Loaded(config.workspaces, names, ValidNames(names))
        /\ config'.autostart = Loaded(config.autostart, programs, ValidPrograms(programs))
    BY <1>6, <1>8 DEF LoadFile, LoadWorkspaces, LoadAutostart, Readable
  <2>4. NamesOf(opt) = Kept(names, ValidNames(names)) /\ ProgramsOf(opt) = Kept(programs, ValidPrograms(programs))
    BY <1>8 DEF NamesOf, ProgramsOf
  <2> DEFINE v == ValidNames(names)
             w == ValidPrograms(programs)
             cw == config.workspaces
             ca == config.autostart
  <2> HIDE DEF names, programs, v, w, cw, ca
  <2>5. config'.workspaces = Reverse(NamesOf(opt)) \o config.workspaces
    <3>1. cw \in Seq(Names) /\ names \in Seq(Names)
      BY <2>1, <2>2 DEF cw
    <3>2. Loaded(cw, names, v) = Reverse(Kept(names, v)) \o cw
      BY <3>1, LoadedReversesKept
    <3> QED BY <2>3, <2>4, <3>2 DEF cw, v
  <2>6. config'.autostart = Reverse(ProgramsOf(opt)) \o config.autostart
    <3>1. ca \in Seq(AllPrograms) /\ programs \in Seq(AllPrograms)
      BY <2>1, <2>2 DEF ca
    <3>2. Loaded(ca, programs, w) = Reverse(Kept(programs, w)) \o ca
      BY <3>1, LoadedReversesKept
    <3> QED BY <2>3, <2>4, <3>2 DEF ca, w
  <2>7. Reverse(NamesUpTo(optind)) = Reverse(NamesOf(opt)) \o Reverse(NamesUpTo(n))
    BY <1>4, <1>5, ReverseConcat
  <2>8. Reverse(ProgramsUpTo(optind)) = Reverse(ProgramsOf(opt)) \o Reverse(ProgramsUpTo(n))
    BY <1>4, <1>5, ReverseConcat
  <2>9. NamesUpTo(optind) \in Seq(GoodNames) /\ ProgramsUpTo(optind) \in Seq(AllPrograms)
    BY <1>4, <1>5
  <2> QED BY <1>2, <2>5, <2>6, <2>7, <2>8, <2>9
<1> QED BY <1>7, <1>8

LEMMA ReadKeepsIInv ==
  ASSUME IInv, ReadOption
  PROVE  IInv'
<1>1. /\ pc = "options" /\ optind' = optind + 1 /\ optind <= Len(argv)
      /\ UNCHANGED <<commandLine, workspaces, active, todo, started>>
  BY DEF ReadOption
<1>2. argv' = argv
  BY <1>1 DEF commandLine
<1>3. /\ workspaces = <<>> /\ todo = <<>> /\ started = <<>> /\ active = NULL
      /\ argv \in Seq(Options) /\ optind \in 1..Len(argv) + 1 /\ startup_cmd \in Programs \cup {NULL}
  BY <1>1 DEF IInv, Types, CutShort, FilesLoaded, ProgramsStarted, WorkspacesMade, HasWorkspaces
<1>4. pc' \in {"options", "usage"} /\ startup_cmd' \in Programs \cup {NULL}
  <2> DEFINE opt == argv[optind]
  <2>1. opt \in Options
    BY <1>1, <1>3
  <2>2. opt.option \in {"c", "s", "h"} /\ (opt.option = "s" => opt.arg \in Programs)
    BY <2>1 DEF Options
  <2>3. CASE opt.option = "c"
    BY <1>1, <1>3, <2>3 DEF ReadOption
  <2>4. CASE opt.option = "s"
    BY <1>1, <1>3, <2>2, <2>4 DEF ReadOption
  <2>5. CASE opt.option = "h"
    BY <1>1, <1>3, <2>5 DEF ReadOption
  <2> QED BY <2>2, <2>3, <2>4, <2>5
<1>5. /\ config'.workspaces = Reverse(NamesUpTo(optind))
      /\ config'.autostart = Reverse(ProgramsUpTo(optind))
      /\ config'.workspaces \in Seq(GoodNames)
      /\ config'.autostart \in Seq(AllPrograms)
  BY ConfigAfterOption, ReverseSeq
<1>6. GoodNames' = GoodNames
  BY <1>2 DEF GoodNames
<1>7. Types'
  BY <1>1, <1>2, <1>3, <1>4, <1>5, <1>6 DEF Types, Places
<1>8. FilesLoaded'
  <2>1. optind' - 1 = optind
    BY <1>1, <1>3
  <2> QED BY <1>1, <1>2, <1>3, <1>4, <1>5, <2>1 DEF CutShort, FilesLoaded, NamesUpTo, ProgramsUpTo
<1>9. WorkspacesMade'
  <2>1. workspaces' = <<>> /\ active' = NULL /\ Len(<<>>) = 0 /\ Len(config'.workspaces) \in Nat
    BY <1>1, <1>3, <1>5
  <2> QED BY <1>4, <2>1 DEF CutShort, WorkspacesMade, HasWorkspaces
<1>10. ProgramsStarted'
  BY <1>1, <1>3, <1>4 DEF ProgramsStarted
<1> QED BY <1>7, <1>8, <1>9, <1>10 DEF IInv

\* The process dies of a path.
LEMMA OverrunKeepsIInv ==
  ASSUME IInv, PathOverrun
  PROVE  IInv'
<1>1. /\ pc = "options" /\ optind <= Len(argv) /\ pc' = "aborted" /\ LongPath(argv[optind])
      /\ UNCHANGED <<argv, optind, startup_cmd, config, workspaces, active, todo, started>>
  BY DEF PathOverrun, commandLine, LongPath
<1>2. CutShort'
  BY <1>1 DEF CutShort
<1>3. Types'
  BY <1>1 DEF IInv, Types, Places, GoodNames
<1>4. FilesLoaded'
  BY <1>1, <1>2 DEF IInv, CutShort, FilesLoaded, NamesUpTo, ProgramsUpTo
<1>5. WorkspacesMade' /\ ProgramsStarted'
  BY <1>1, <1>2 DEF IInv, CutShort, WorkspacesMade, ProgramsStarted, HasWorkspaces
<1> QED BY <1>3, <1>4, <1>5 DEF IInv

\* A turn of create_workspaces_from_config.
LEMMA CreateKeepsIInv ==
  ASSUME IInv, CreateWorkspace
  PROVE  IInv'
<1>1. /\ pc = "workspaces" /\ todo # <<>>
      /\ UNCHANGED <<argv, optind, startup_cmd, config, active, started>>
  BY DEF CreateWorkspace, commandLine
<1>2. /\ GoodNames' = GoodNames
      /\ \A n : NamesUpTo(n)' = NamesUpTo(n) /\ ProgramsUpTo(n)' = ProgramsUpTo(n)
  BY <1>1 DEF GoodNames, NamesUpTo, ProgramsUpTo
<1>3. CASE pc' = "aborted" /\ Head(todo).length >= NameRoom /\ UNCHANGED <<workspaces, todo>>
  <2>1. Types'
    BY <1>1, <1>2, <1>3 DEF IInv, Types, Places
  <2>2. FilesLoaded'
    BY <1>1, <1>3 DEF IInv, CutShort, FilesLoaded, NamesUpTo, ProgramsUpTo
  <2>3. WorkspacesMade'
    BY <1>1, <1>3 DEF IInv, CutShort, WorkspacesMade, HasWorkspaces
  <2>4. ProgramsStarted'
    BY <1>1, <1>3 DEF IInv, ProgramsStarted
  <2> QED BY <2>1, <2>2, <2>3, <2>4 DEF IInv
<1>4. CASE workspaces' = Created(workspaces, Head(todo)) /\ todo' = Tail(todo) /\ pc' = pc
  <2> DEFINE L == Len(workspaces)
             W == config.workspaces
             next == [name |-> Head(todo).name, id |-> L + 1]
             R == [name : STRING, id : Nat]
  <2>1. /\ workspaces \in Seq(R) /\ W \in Seq(GoodNames) /\ L \in Nat
        /\ L + Len(todo) = Len(W)
        /\ \A i \in 1..Len(todo) : todo[i] = W[L + i]
        /\ \A i \in 1..L : workspaces[i] = [name |-> W[L + 1 - i].name, id |-> L + 1 - i]
        /\ todo \in Seq(Range(W))
    BY <1>1 DEF IInv, Types, CutShort, WorkspacesMade
  <2>2. /\ Head(todo) = W[L + 1] /\ L + 1 \in 1..Len(W)
        /\ Tail(todo) \in Seq(Range(W)) /\ Len(Tail(todo)) = Len(todo) - 1
        /\ \A i \in 1..(Len(todo) - 1) : Tail(todo)[i] = todo[i + 1]
    <3>1. Head(todo) = todo[1] /\ 1 \in 1..Len(todo)
      BY <1>1, <2>1
    <3>2. Tail(todo) \in Seq(Range(W)) /\ Len(Tail(todo)) = Len(todo) - 1
          /\ \A i \in 1..(Len(todo) - 1) : Tail(todo)[i] = todo[i + 1]
      BY <1>1, <2>1
    <3>3. Len(todo) \in Nat /\ Len(W) \in Nat
      BY <2>1
    <3>4. Head(todo) = W[L + 1]
      BY <2>1, <3>1
    <3>5. L + 1 \in 1..Len(W)
      <4> HIDE DEF L, W
      <4> QED BY <2>1, <3>1, <3>3
    <3> QED BY <3>2, <3>4, <3>5
  <2>3. Head(todo).name \in STRING
    <3>1. Head(todo) \in GoodNames
      BY <2>1, <2>2
    <3>2. PICK o \in Range(argv) : Readable(o) /\ Head(todo) \in Range(o.arg.workspaces)
      BY <3>1 DEF GoodNames
    <3>3. o \in Options
      BY DEF IInv, Types, Range
    <3>4. o.arg.workspaces \in Seq(Names)
      BY <3>2, <3>3, FilesOf
    <3>5. Head(todo) \in Names /\ Head(todo) # NULL
      BY <3>1, <3>2, <3>4 DEF Range, GoodNames, NameValid
    <3> QED BY <3>5 DEF Names
  <2>4. next \in R
    BY <2>1, <2>3
  <2>5. workspaces' = <<next>> \o workspaces
    BY <1>4 DEF Created
  <2>6. /\ workspaces' \in Seq(R) /\ Len(workspaces') = L + 1 /\ workspaces'[1] = next
        /\ \A i \in 1..L : workspaces'[i + 1] = workspaces[i]
    <3> HIDE DEF next, R
    <3> QED BY <2>1, <2>4, <2>5
  <2>7. \A i \in 1..(L + 1) :
          workspaces'[i] = [name |-> W[(L + 1) + 1 - i].name, id |-> (L + 1) + 1 - i]
    <3> TAKE i \in 1..(L + 1)
    <3>1. CASE i = 1
      <4>1. (L + 1) + 1 - i = L + 1
        BY <2>1, <3>1
      <4> QED BY <2>2, <2>6, <3>1, <4>1
    <3>2. CASE i # 1
      <4>1. i - 1 \in 1..L /\ (i - 1) + 1 = i /\ L + 1 - (i - 1) = (L + 1) + 1 - i
        BY <2>1, <3>2
      <4> HIDE DEF L, W, next
      <4>2. workspaces'[(i - 1) + 1] = workspaces[i - 1]
        BY <2>6, <4>1
      <4>3. workspaces[i - 1] = [name |-> W[L + 1 - (i - 1)].name, id |-> L + 1 - (i - 1)]
        BY <2>1, <4>1
      <4> QED BY <4>1, <4>2, <4>3
    <3> QED BY <3>1, <3>2
  <2>8. Types'
    BY <1>1, <1>2, <1>4, <2>2, <2>6 DEF IInv, Types
  <2>9. FilesLoaded'
    BY <1>1, <1>4 DEF IInv, CutShort, FilesLoaded, NamesUpTo, ProgramsUpTo
  <2>10. /\ (L + 1) + Len(todo') = Len(W)
         /\ \A i \in 1..Len(todo') : todo'[i] = W[(L + 1) + i]
    <3>1. Len(todo) \in Nat /\ Len(W) \in Nat
      BY <2>1
    <3>2. Len(todo') = Len(todo) - 1
      BY <1>4, <2>2
    <3>3. (L + 1) + Len(todo') = Len(W)
      <4>1. L + Len(todo) = Len(W) /\ L \in Nat
        BY <2>1
      <4> HIDE DEF L, W
      <4> QED BY <3>1, <3>2, <4>1
    <3>4. ASSUME NEW i \in 1..(Len(todo) - 1) PROVE todo'[i] = W[(L + 1) + i]
      <4>1. todo'[i] = todo[i + 1]
        BY <1>4, <2>2
      <4>2. i + 1 \in 1..Len(todo) /\ L + (i + 1) = (L + 1) + i
        BY <2>1, <3>1
      <4>3. todo[i + 1] = W[L + (i + 1)]
        BY <2>1, <4>2
      <4> QED BY <4>1, <4>2, <4>3
    <3> QED BY <3>2, <3>3, <3>4
  <2>11. WorkspacesMade'
    <3>1. Len(workspaces') = L + 1 /\ config' = config /\ L + 1 <= Len(W)
      BY <1>1, <2>1, <2>2, <2>6
    <3>2. active' = NULL /\ pc' = "workspaces" /\ ~HasWorkspaces'
      BY <1>1, <1>4 DEF IInv, CutShort, WorkspacesMade, HasWorkspaces
    <3> HIDE DEF L, next
    <3> QED BY <2>7, <2>10, <3>1, <3>2 DEF CutShort, WorkspacesMade
  <2>12. ProgramsStarted'
    BY <1>1, <1>4 DEF IInv, ProgramsStarted
  <2> QED BY <2>8, <2>9, <2>11, <2>12 DEF IInv
<1> QED BY <1>3, <1>4 DEF CreateWorkspace

\* Steps that leave the configuration, the command line and the workspaces alone.
LEMMA OthersKeepIInv ==
  ASSUME IInv,
         EndOfOptions \/ SetUp \/ WorkspacesCreated \/ StartBackend \/ StartProgram \/ Autostart
           \/ StartThread \/ UNCHANGED vars
  PROVE  IInv'
<1>1. UNCHANGED <<argv, optind, startup_cmd, config, workspaces>>
  BY DEF EndOfOptions, SetUp, WorkspacesCreated, StartBackend, StartProgram, Autostart,
         StartThread, vars, commandLine
<1>2. GoodNames' = GoodNames
  BY <1>1 DEF GoodNames
<1>3. Types /\ FilesLoaded /\ WorkspacesMade /\ ProgramsStarted
  BY DEF IInv
<1>4. config.workspaces \in Seq(GoodNames) /\ config.autostart \in Seq(AllPrograms)
  BY <1>3 DEF Types
<1>5. /\ config.workspaces \in Seq(Range(config.workspaces))
      /\ config.autostart \in Seq(Range(config.autostart))
  BY <1>4 DEF Range
<1>6. CASE UNCHANGED vars
  BY <1>1, <1>2, <1>3, <1>6 DEF vars, IInv, Types, CutShort, FilesLoaded, NamesUpTo, ProgramsUpTo,
     WorkspacesMade, ProgramsStarted, HasWorkspaces, First, CreatedLast
<1>7. CASE EndOfOptions
  <2>1. /\ pc = "options" /\ optind = Len(argv) + 1 /\ pc' \in {"usage", "setup"}
        /\ UNCHANGED <<active, todo, started>>
    BY <1>3, <1>7 DEF EndOfOptions, Types
  <2> QED BY <1>1, <1>2, <1>3, <2>1 DEF IInv, Types, Places, CutShort, FilesLoaded, NamesUpTo, ProgramsUpTo,
     WorkspacesMade, ProgramsStarted, HasWorkspaces, First, CreatedLast
<1>8. CASE SetUp
  <2>1. /\ pc = "setup" /\ pc' \in {"workspaces", "failed"} /\ todo' = config.workspaces
        /\ UNCHANGED <<active, started>>
    BY <1>8 DEF SetUp
  <2>2. workspaces = <<>> /\ Len(<<>>) = 0
    BY <1>3, <2>1 DEF CutShort, FilesLoaded
  <2>3. Types'
    BY <1>1, <1>2, <1>3, <1>5, <2>1 DEF Types, Places
  <2>4. FilesLoaded' /\ ProgramsStarted'
    BY <1>1, <1>3, <2>1 DEF CutShort, FilesLoaded, NamesUpTo, ProgramsUpTo, ProgramsStarted
  <2>5. WorkspacesMade'
    <3>1. Len(todo') = Len(config'.workspaces) /\ Len(config'.workspaces) \in Nat
          /\ Len(workspaces') = 0
      BY <1>1, <1>4, <2>1, <2>2
    <3>2. \A i \in 1..Len(todo') : todo'[i] = config'.workspaces[0 + i]
      BY <1>1, <1>4, <2>1
    <3> QED BY <1>1, <1>3, <2>1, <3>1, <3>2 DEF CutShort, WorkspacesMade, HasWorkspaces, CreatedLast
  <2> QED BY <2>3, <2>4, <2>5 DEF IInv
<1>9. CASE WorkspacesCreated
  <2>1. /\ pc = "workspaces" /\ pc' = "backend" /\ todo = <<>> /\ Len(<<>>) = 0
        /\ active' = CreatedLast(workspaces) /\ UNCHANGED <<todo, started>>
    BY <1>9 DEF WorkspacesCreated
  <2>2. Len(workspaces) = Len(config.workspaces)
    <3>1. Len(workspaces) \in Nat
      BY <1>3 DEF Types
    <3> QED BY <1>3, <2>1, <3>1 DEF CutShort, WorkspacesMade
  <2>3. Types'
    BY <1>1, <1>2, <1>3, <2>1 DEF Types, Places
  <2>4. FilesLoaded' /\ ProgramsStarted'
    BY <1>1, <1>3, <2>1 DEF CutShort, FilesLoaded, NamesUpTo, ProgramsUpTo, ProgramsStarted
  <2>5. WorkspacesMade'
    BY <1>1, <1>3, <2>1, <2>2 DEF CutShort, WorkspacesMade, HasWorkspaces, CreatedLast
  <2> QED BY <2>3, <2>4, <2>5 DEF IInv
<1>10. CASE StartBackend
  <2>1. pc = "backend" /\ pc' \in {"startup", "failed"} /\ UNCHANGED <<active, todo, started>>
    BY <1>10 DEF StartBackend
  <2> QED BY <1>1, <1>2, <1>3, <2>1 DEF IInv, Types, Places, CutShort, FilesLoaded, NamesUpTo, ProgramsUpTo,
     WorkspacesMade, ProgramsStarted, HasWorkspaces, First, CreatedLast
<1>11. CASE StartProgram
  <2>1. /\ pc = "startup" /\ pc' = "autostart" /\ todo' = config.autostart
        /\ started' = IF startup_cmd = NULL THEN started ELSE Append(started, startup_cmd)
        /\ UNCHANGED active
    BY <1>11 DEF StartProgram
  <2>2. Types'
    BY <1>1, <1>2, <1>3, <1>5, <2>1 DEF Types, Places
  <2>3. FilesLoaded' /\ WorkspacesMade'
    BY <1>1, <1>3, <2>1 DEF CutShort, FilesLoaded, NamesUpTo, ProgramsUpTo, WorkspacesMade, HasWorkspaces,
       CreatedLast
  <2>4. ProgramsStarted'
    <3>1. started = <<>> /\ startup_cmd \in Programs \cup {NULL}
      BY <1>3, <2>1 DEF ProgramsStarted, Types
    <3>2. started' = First
      BY <2>1, <3>1 DEF First
    <3>3. First \in Seq(AllPrograms)
      <4>1. startup_cmd # NULL => startup_cmd \in AllPrograms
        BY <3>1 DEF AllPrograms
      <4> QED BY <4>1 DEF First
    <3>4. First' = First
      BY <1>1 DEF First
    <3> QED BY <1>1, <2>1, <3>2, <3>3, <3>4 DEF ProgramsStarted
  <2> QED BY <2>2, <2>3, <2>4 DEF IInv
<1>12. CASE Autostart
  <2>1. /\ pc = "autostart" /\ pc' = pc /\ todo # <<>>
        /\ started' = Append(started, Head(todo)) /\ todo' = Tail(todo)
        /\ UNCHANGED active
    BY <1>12 DEF Autostart
  <2>2. todo \in Seq(Range(config.autostart))
    BY <1>3, <2>1 DEF Types
  <2>3. Tail(todo) \in Seq(Range(config.autostart)) /\ Head(todo) \in Range(config.autostart)
    BY <2>1, <2>2
  <2>4. Types'
    BY <1>1, <1>2, <1>3, <2>1, <2>3 DEF Types
  <2>5. FilesLoaded' /\ WorkspacesMade'
    BY <1>1, <1>3, <2>1 DEF CutShort, FilesLoaded, NamesUpTo, ProgramsUpTo, WorkspacesMade, HasWorkspaces,
       CreatedLast
  <2>6. ProgramsStarted'
    <3>1. started \in Seq(AllPrograms) /\ started \o todo = First \o config.autostart
      BY <1>3, <2>1 DEF ProgramsStarted
    <3>2. Range(config.autostart) \subseteq AllPrograms
      BY <1>4 DEF Range
    <3>3. todo \in Seq(AllPrograms)
      BY <2>2, <3>2
    <3>4. Append(started, Head(todo)) \o Tail(todo) = started \o todo
      BY <2>1, <3>1, <3>3, HeadMoved
    <3>5. Append(started, Head(todo)) \in Seq(AllPrograms)
      BY <2>1, <3>1, <3>3
    <3>6. First' = First
      BY <1>1 DEF First
    <3> QED BY <1>1, <2>1, <3>1, <3>4, <3>5, <3>6 DEF ProgramsStarted
  <2> QED BY <2>4, <2>5, <2>6 DEF IInv
<1>13. CASE StartThread
  <2>1. /\ pc = "autostart" /\ todo = <<>> /\ pc' \in {"running", "failed"}
        /\ UNCHANGED <<active, todo, started>>
    BY <1>13 DEF StartThread
  <2>2. <<>> \in Seq(Range(config.workspaces))
    OBVIOUS
  <2>3. Types'
    BY <1>1, <1>2, <1>3, <2>1, <2>2 DEF Types, Places
  <2>4. FilesLoaded' /\ WorkspacesMade' /\ ProgramsStarted'
    BY <1>1, <1>3, <2>1 DEF CutShort, FilesLoaded, NamesUpTo, ProgramsUpTo, WorkspacesMade, ProgramsStarted,
       HasWorkspaces, First, CreatedLast
  <2> QED BY <2>3, <2>4 DEF IInv
<1> QED BY <1>6, <1>7, <1>8, <1>9, <1>10, <1>11, <1>12, <1>13

-----------------------------------------------------------------------------
(* What follows from it.                                                    *)

\* Past the options the lists hold everything the command line says.
LEMMA AllOptionsRead ==
  ASSUME IInv, pc \notin {"options", "usage", "aborted"}
  PROVE  /\ config.workspaces = Reverse(NamesSaid) /\ NamesSaid \in Seq(GoodNames)
         /\ config.autostart = Reverse(ProgramsSaid)
<1>1. argv \in Seq(Options) /\ optind = Len(argv) + 1
  BY DEF IInv, Types, CutShort, FilesLoaded
<1>2. optind - 1 = Len(argv) /\ DOMAIN argv = 1..Len(argv) /\ Len(argv) \in Nat
  BY <1>1
<1>3. NamesSaid = NamesUpTo(optind - 1) /\ ProgramsSaid = ProgramsUpTo(optind - 1)
  BY <1>2 DEF NamesSaid, ProgramsSaid, NamesUpTo, ProgramsUpTo
<1>4. NamesUpTo(Len(argv)) \in Seq(GoodNames)
  <2> DEFINE ss == [i \in 1..Len(argv) |-> NamesOf(argv[i])]
  <2>1. \A i \in 1..Len(argv) : NamesOf(argv[i]) \in Seq(GoodNames)
    BY <1>1, SaidByOption
  <2>2. ss \in Seq(Seq(GoodNames)) /\ <<>> \in Seq(GoodNames)
    BY <1>2, <2>1
  <2> HIDE DEF ss
  <2>3. FlattenSeq(ss) \in Seq(GoodNames)
    BY <2>2, FlattenAppend
  <2> QED BY <2>3 DEF NamesUpTo, ss
<1> QED BY <1>2, <1>3, <1>4 DEF IInv, CutShort, FilesLoaded

LEMMA IInvImpliesTypeOK ==
  ASSUME IInv
  PROVE  TypeOK
<1>1. Types /\ WorkspacesMade
  BY DEF IInv
<1>2. Len(workspaces) \in Nat /\ DOMAIN workspaces = 1..Len(workspaces)
  BY <1>1 DEF Types
<1>3. ASSUME NEW i \in DOMAIN workspaces
      PROVE  workspaces[i].id = Len(workspaces) + 1 - i /\ workspaces[i].name \in STRING
  <2> DEFINE R == [name : STRING, id : Nat]
             name == config.workspaces[Len(workspaces) + 1 - i].name
             id == Len(workspaces) + 1 - i
  <2>1. workspaces \in Seq(R) /\ i \in 1..Len(workspaces)
    BY <1>1, <1>2 DEF Types
  <2>2. workspaces[i] \in R
    <3> HIDE DEF R
    <3> QED BY <2>1
  <2>3. workspaces[i] = [name |-> name, id |-> id]
    BY <1>1, <2>1 DEF CutShort, WorkspacesMade
  <2> HIDE DEF name, id
  <2>4. workspaces[i].id = id /\ workspaces[i].name \in STRING
    BY <2>2, <2>3
  <2> QED BY <2>4 DEF id
<1>4. active \in {NULL, Garbage} \cup {w.id : w \in Range(workspaces)}
  <2>1. active \in {NULL, CreatedLast(workspaces)}
    BY <1>1 DEF CutShort, WorkspacesMade
  <2>2. CASE workspaces = <<>>
    BY <2>1, <2>2 DEF CreatedLast
  <2>3. CASE workspaces # <<>>
    <3>1. Head(workspaces) = workspaces[1] /\ 1 \in DOMAIN workspaces
      BY <1>1, <1>2, <2>3 DEF Types
    <3>2. Head(workspaces) \in Range(workspaces)
      BY <3>1 DEF Range
    <3> QED BY <2>1, <2>3, <3>2 DEF CreatedLast
  <2> QED BY <2>2, <2>3
<1> QED BY <1>1, <1>3, <1>4 DEF TypeOK, Types

LEMMA IInvImpliesAsConfigured ==
  ASSUME IInv
  PROVE  WorkspacesAsConfigured
<1> SUFFICES ASSUME HasWorkspaces
             PROVE  /\ [i \in DOMAIN workspaces |-> workspaces[i].name]
                         = [i \in DOMAIN NamesSaid |-> NamesSaid[i].name]
                    /\ workspaces # <<>> => active = workspaces[1].id
  BY DEF WorkspacesAsConfigured
<1> DEFINE N == Len(NamesSaid)
           W == config.workspaces
<1>1. W = Reverse(NamesSaid) /\ NamesSaid \in Seq(GoodNames)
  BY AllOptionsRead DEF HasWorkspaces
<1>2. /\ Len(W) = N /\ N \in Nat /\ DOMAIN NamesSaid = 1..N
      /\ \A i \in 1..N : W[i] = NamesSaid[N + 1 - i]
  BY <1>1, ReverseSeq
<1>3. /\ workspaces \in Seq([name : STRING, id : Nat])
      /\ Len(workspaces) = Len(W) /\ active = CreatedLast(workspaces)
      /\ \A i \in 1..Len(workspaces) : workspaces[i] = [name |-> W[Len(workspaces) + 1 - i].name,
                                                       id |-> Len(workspaces) + 1 - i]
  BY DEF IInv, Types, CutShort, WorkspacesMade
<1>4. DOMAIN workspaces = 1..N
  BY <1>2, <1>3
<1> HIDE DEF N, W
<1>5. ASSUME NEW i \in 1..N PROVE workspaces[i].name = NamesSaid[i].name
  <2>1. N + 1 - i \in 1..N /\ N + 1 - (N + 1 - i) = i
    BY <1>2
  <2>2. W[N + 1 - i] = NamesSaid[i]
    BY <1>2, <2>1
  <2>3. workspaces[i].name = W[N + 1 - i].name
    BY <1>2, <1>3
  <2> QED BY <2>2, <2>3
<1>6. workspaces # <<>> => Head(workspaces) = workspaces[1]
  BY <1>3
<1> QED BY <1>2, <1>3, <1>4, <1>5, <1>6 DEF CreatedLast

LEMMA IInvImpliesInReverse ==
  ASSUME IInv
  PROVE  ProgramsInReverse
<1> SUFFICES ASSUME pc = "running" PROVE started = First \o Reverse(ProgramsSaid)
  BY DEF ProgramsInReverse, First
<1>1. started \in Seq(AllPrograms) /\ todo = <<>> /\ started \o todo = First \o config.autostart
  BY DEF IInv, ProgramsStarted
<1>2. started \o <<>> = started
  BY <1>1
<1>3. config.autostart = Reverse(ProgramsSaid)
  BY AllOptionsRead
<1> QED BY <1>1, <1>2, <1>3

LEMMA IInvImpliesDiesAtTheLimitOnly ==
  ASSUME IInv
  PROVE  DiesAtTheLimitOnly
<1> SUFFICES ASSUME pc = "aborted", ~CutShort
             PROVE  \E opt \in Range(argv) :
                      Readable(opt) /\ \E n \in Range(opt.arg.workspaces) :
                                        n # NULL /\ n.length = MaxNameLength
  <2>1. CASE CutShort
    <3>1. optind \in 1..Len(argv) /\ argv \in Seq(Options) /\ LongPath(argv[optind])
      BY <2>1 DEF IInv, Types, CutShort, FilesLoaded
    <3> QED BY <3>1 DEF DiesAtTheLimitOnly, Range
  <2> QED BY <2>1 DEF DiesAtTheLimitOnly
<1> DEFINE n == Head(todo)
<1>1. /\ todo # <<>> /\ n.length >= NameRoom /\ todo \in Seq(Range(config.workspaces))
      /\ config.workspaces \in Seq(GoodNames) /\ argv \in Seq(Options)
  BY DEF IInv, Types, CutShort, WorkspacesMade
<1>2. n \in GoodNames
  <2>1. n \in Range(config.workspaces)
    BY <1>1
  <2> QED BY <1>1, <2>1 DEF Range
<1> HIDE DEF n
<1>3. PICK opt \in Range(argv) : Readable(opt) /\ n \in Range(opt.arg.workspaces)
  BY <1>2 DEF GoodNames
<1>4. n # NULL /\ n.length <= MaxNameLength
  BY <1>2 DEF GoodNames, NameValid
<1>5. n \in Names
  <2>1. opt.arg.workspaces \in Seq(Names)
    BY <1>1, <1>3, FilesOf DEF Range
  <2> QED BY <1>3, <2>1 DEF Range
<1>6. n.length \in Nat
  BY <1>4, <1>5 DEF Names
<1>7. n.length = MaxNameLength
  BY <1>1, <1>4, <1>6 DEF MaxNameLength, NameRoom
<1> QED BY <1>3, <1>4, <1>7

-----------------------------------------------------------------------------
(* The theorems.                                                            *)

\* The inductive invariant.
THEOREM Invariance == Spec => []IInv
<1>1. IInv /\ [Next]_vars => IInv'
  BY ReadKeepsIInv, OverrunKeepsIInv, CreateKeepsIInv, OthersKeepIInv DEF Next
<1> QED BY <1>1, InitIInv, PTL DEF Spec

\* Whatever the command line and its files: main is at one of its places, the
\* workspaces are numbered in the order they were made, and the loops have only
\* entries of the configuration left to come to.
THEOREM TypeCorrect == Spec => []TypeOK
<1>1. IInv => TypeOK
  BY IInvImpliesTypeOK
<1> QED BY <1>1, Invariance, PTL

\* The two reversals, of load_workspaces and of create_workspace, cancel out for
\* any number of files, names and repetitions.
THEOREM InTheOrderOfTheFiles == Spec => []WorkspacesAsConfigured
<1>1. IInv => WorkspacesAsConfigured
  BY IInvImpliesAsConfigured
<1> QED BY <1>1, Invariance, PTL

\* What the autostart loop forks is the last -s and then every valid program of
\* every readable file once, the last one named first.
THEOREM EachProgramOnceInReverse == Spec => []ProgramsInReverse
<1>1. IInv => ProgramsInReverse
  BY IInvImpliesInReverse
<1> QED BY <1>1, Invariance, PTL

\* create_workspace's strcpy can only be one byte over: main dies there of a
\* name of exactly MaxNameLength characters, never of a longer one.
THEOREM OnlyTheLimitKills == Spec => []DiesAtTheLimitOnly
<1>1. IInv => DiesAtTheLimitOnly
  BY IInvImpliesDiesAtTheLimitOnly
<1> QED BY <1>1, Invariance, PTL
=============================================================================
