------------------------------ MODULE LocalProofs ------------------------------
(***************************************************************************)
(* Proofs about what gNOIc settles before it calls a device: the targets   *)
(* it is given (module TargetConfig), for any number of targets, and the   *)
(* messages it builds (module Requests), for any options nested to any     *)
(* depth.                                                                  *)
(***************************************************************************)
EXTENDS TargetConfig, Requests, SequenceTheorems, TLAPS

\* TcInit bounds the number of targets for TLC; nothing below depends on it.
TcAnyInit ==
    /\ global \in [insecure : BOOLEAN, ca : {Unset, "global"}]
    /\ asked \in SUBSET CliTargets \/ asked \in SUBSET FileTargets
    /\ left = asked
    /\ targets = <<>>
    /\ getting = "targets"

TcAnySpec == TcAnyInit /\ [][TcNext]_tcVars

\* An element of --address, or of the file, with what it may say.
TcEntries ==
    [host : Hosts, port : Given, name : TargetNames \cup {Unset},
     insecure : {Unset, "true", "false"}, ca : {Unset, "own"}]

\* The inductive invariant: what is kept under the name of a target is what was
\* made of one of that name, although perhaps not of that one.
TcKept(e) ==
    /\ TcName(e) \in DOMAIN targets
    /\ \E f \in asked : /\ TcName(f) = TcName(e)
                        /\ targets[TcName(e)].Address = parseAddress(f)
TcIInv ==
    /\ global.insecure \in BOOLEAN
    /\ asked \subseteq TcEntries /\ left \subseteq asked
    /\ \A e \in asked \ left : TcKept(e)
    /\ \A n \in DOMAIN targets : \E e \in asked : targets[n] = setTargetConfigDefaults(e)
    /\ getting = "ok" => left = {}

LEMMA TcInitInv == TcAnyInit => TcIInv
BY DEF TcAnyInit, TcIInv, TcEntries, CliTargets, FileTargets

\* A target is put under its name.
LEMMA TcConfigureNext ==
    ASSUME TcIInv, TcConfigure
    PROVE  TcIInv'
<1>1. PICK e \in left :
          /\ targets' = [n \in DOMAIN targets \cup {TcName(e)} |->
                             IF n = TcName(e) THEN setTargetConfigDefaults(e) ELSE targets[n]]
          /\ left' = left \ {e}
          /\ UNCHANGED <<global, asked, getting>> /\ getting = "targets"
  BY DEF TcConfigure
<1>2. /\ DOMAIN targets' = DOMAIN targets \cup {TcName(e)}
      /\ targets'[TcName(e)] = setTargetConfigDefaults(e)
      /\ \A n \in DOMAIN targets : n # TcName(e) => targets'[n] = targets[n]
  BY <1>1
<1>3. e \in asked
  BY DEF TcIInv
<1>4. targets'[TcName(e)].Address = parseAddress(e)
  BY <1>2 DEF setTargetConfigDefaults
<1>5. ASSUME NEW d \in asked' \ left'
      PROVE  TcKept(d)'
  <2>1. parseAddress(d)' = parseAddress(d) /\ TcName(d)' = TcName(d) /\ asked' = asked
    BY <1>1 DEF parseAddress, TcName
  <2>2. CASE TcName(d) = TcName(e)
    BY <1>2, <1>3, <1>4, <2>1, <2>2 DEF TcKept, TcName, parseAddress
  <2>3. CASE TcName(d) # TcName(e)
    <3>1. d \in asked \ left
      BY <1>1, <1>5, <2>1, <2>3
    <3>2. TcKept(d)
      BY <3>1 DEF TcIInv
    <3> QED
      BY <1>2, <2>1, <2>3, <3>2 DEF TcKept, TcName, parseAddress
  <2> QED
    BY <2>2, <2>3
<1>6. ASSUME NEW n \in DOMAIN targets'
      PROVE  \E d \in asked' : targets'[n] = setTargetConfigDefaults(d)'
  <2>1. \A d : setTargetConfigDefaults(d)' = setTargetConfigDefaults(d)
    BY <1>1 DEF setTargetConfigDefaults, parseAddress
  <2>2. CASE n = TcName(e)
    BY <1>1, <1>2, <1>3, <2>1, <2>2
  <2>3. CASE n # TcName(e)
    BY <1>1, <1>2, <2>1, <2>3 DEF TcIInv
  <2> QED
    BY <2>2, <2>3
<1> QED
  BY <1>1, <1>5, <1>6 DEF TcIInv

LEMMA TcInductive == TcAnySpec => []TcIInv
<1>1. TcIInv /\ [TcNext]_tcVars => TcIInv'
  <2> SUFFICES ASSUME TcIInv, [TcNext]_tcVars PROVE TcIInv'
    OBVIOUS
  <2>1. CASE TcConfigure
    BY <2>1, TcConfigureNext
  <2>2. CASE TcFails \/ TcDone \/ UNCHANGED tcVars
    <3>1. /\ UNCHANGED <<global, asked, left, targets>>
          /\ getting' = "ok" => getting = "ok" \/ left = {}
      BY <2>2 DEF TcFails, TcDone, tcVars
    <3>2. \A e : TcKept(e) => TcKept(e)'
      BY <3>1 DEF TcKept, TcName, parseAddress
    <3>3. \A e : setTargetConfigDefaults(e)' = setTargetConfigDefaults(e)
      BY <3>1 DEF setTargetConfigDefaults, parseAddress
    <3> QED
      BY <3>1, <3>2, <3>3 DEF TcIInv
  <2> QED
    BY <2>1, <2>2 DEF TcNext
<1> QED
  BY <1>1, TcInitInv, PTL DEF TcAnySpec

\* Two targets are kept under the same name only if they were given it, or if they
\* have the same address.
LEMMA TcSameName ==
    ASSUME NEW e \in TcEntries, NEW f \in TcEntries, TcName(e) = TcName(f)
    PROVE  \/ e.name = f.name /\ f.name # Unset
           \/ parseAddress(e) = parseAddress(f)
BY DEF TcName, parseAddress

\* Of any number of targets a command is asked to run on, on the command line or in
\* the file, none is lost, unless it was given the name of another.
THEOREM TargetsAreNotLost == TcAnySpec => []TargetsNoneLost
<1>1. TcIInv => TargetsNoneLost
  <2> SUFFICES ASSUME TcIInv, getting = "ok", NEW e \in asked
               PROVE  \/ \E n \in DOMAIN targets : targets[n].Address = parseAddress(e)
                      \/ \E f \in asked \ {e} : f.name = e.name /\ f.name # Unset
    BY DEF TargetsNoneLost
  <2>1. TcKept(e)
    BY DEF TcIInv
  <2>2. PICK f \in asked : /\ TcName(f) = TcName(e)
                           /\ targets[TcName(e)].Address = parseAddress(f)
    BY <2>1 DEF TcKept
  <2>3. f \in TcEntries /\ e \in TcEntries
    BY DEF TcIInv
  <2>4. \/ f.name = e.name /\ f.name # Unset
        \/ parseAddress(e) = parseAddress(f)
    BY <2>2, <2>3, TcSameName
  <2> QED
    BY <2>1, <2>2, <2>4 DEF TcKept
<1> QED
  BY <1>1, TcInductive, PTL

\* Each of any number of targets is dialled as one that was asked for: in plain text
\* only where --insecure or its own setting says so.
THEOREM TargetsAreDialledAsAsked == TcAnySpec => []TargetsDialAsAsked
<1>1. TcIInv => TargetsDialAsAsked
  <2> SUFFICES ASSUME TcIInv, NEW n \in DOMAIN targets
               PROVE  \E e \in asked :
                          /\ targets[n].Address = parseAddress(e)
                          /\ DialOpts(targets[n]) =
                                 IF global.insecure \/ e.insecure = "true" THEN "plain text"
                                 ELSE IF e.ca # Unset THEN e.ca ELSE global.ca
    BY DEF TargetsDialAsAsked
  <2>1. PICK e \in asked : targets[n] = setTargetConfigDefaults(e)
    BY DEF TcIInv
  <2>2. targets[n].Address = parseAddress(e)
    BY <2>1 DEF setTargetConfigDefaults
  <2> DEFINE insecure == global.insecure \/ e.insecure = "true"
  <2>3. /\ targets[n].Insecure = insecure
        /\ targets[n].TLSCA = IF e.ca = Unset /\ ~insecure THEN global.ca ELSE e.ca
    BY <2>1 DEF setTargetConfigDefaults
  <2>4. DialOpts(targets[n]) =
            IF insecure THEN "plain text" ELSE IF e.ca # Unset THEN e.ca ELSE global.ca
    <3> HIDE DEF insecure
    <3>1. CASE insecure
      BY <2>3, <3>1, Zenon DEF DialOpts
    <3>2. CASE ~insecure
      BY <2>3, <3>2, Zenon DEF DialOpts
    <3> QED
      BY <3>1, <3>2
  <2> QED
    BY <2>2, <2>4
<1> QED
  BY <1>1, TcInductive, PTL

\* What the runs check is an instance of it.
THEOREM TargetsOfTheRun == TcSpec => []TargetsNoneLost /\ []TargetsDialAsAsked
<1>1. TcInit => TcAnyInit
  <2> SUFFICES ASSUME TcInit PROVE TcAnyInit
    OBVIOUS
  <2>1. \A S : S \in Written(CliTargets) => S \in SUBSET CliTargets
    BY DEF Written
  <2>2. \A S : S \in Written(FileTargets) => S \in SUBSET FileTargets
    BY DEF Written
  <2> QED
    BY <2>1, <2>2 DEF TcInit, TcAnyInit
<1>2. TcSpec => TcAnySpec
  BY <1>1 DEF TcSpec, TcAnySpec
<1> QED
  BY <1>2, TargetsAreNotLost, TargetsAreDialledAsAsked, PTL

-----------------------------------------------------------------------------
\* The builders, asked for any message with any options of a package, which may
\* take options of their own to any depth: S is a set of options closed under that.
ClosedOptions(pkg, S) ==
    \A o \in S : o.opt \in DOMAIN Options[pkg] /\ o.opts \in Seq(S)
ReqAnyInit(S) ==
    /\ request.pkg \in DOMAIN Options /\ request.msg \in STRING
    /\ request.opts \in Seq(S) /\ ClosedOptions(request.pkg, S)
    /\ stack = <<Frame(request.msg, request.opts)>>
    /\ outcome = "building"
ReqAnySpec(S) == ReqAnyInit(S) /\ [][ReqNext]_reqVars

Frames(S) ==
    [msg : STRING, given : Seq(S), todo : Seq(S), set : SUBSET [field : STRING, by : STRING]]

\* How far a frame is, and what an option that was applied left in the message: its
\* field is set, by itself if the field takes several values.
Count(frame) == Len(frame.given) - Len(frame.todo)
FieldOf(pkg, o, msg) == Options[pkg][o][msg]
Kept(pkg, frame, o) ==
    \/ Ignores(pkg, o)
    \/ /\ Accepts(pkg, o, frame.msg)
       /\ \E s \in frame.set : /\ s.field = FieldOf(pkg, o, frame.msg)
                               /\ s.by = o \/ ~Appends(frame.msg, s.field)
FrameInv(pkg, frame) ==
    /\ Count(frame) \in Nat
    /\ \A i \in 1..Len(frame.todo) : frame.todo[i] = frame.given[Count(frame) + i]
    /\ \A s \in frame.set : /\ s.by \in DOMAIN Options[pkg]
                            /\ Accepts(pkg, s.by, frame.msg)
                            /\ s.field = FieldOf(pkg, s.by, frame.msg)
    /\ \A a \in 1..Count(frame) : Kept(pkg, frame, frame.given[a].opt)
ReqIInv(S) ==
    /\ request.pkg \in DOMAIN Options /\ ClosedOptions(request.pkg, S)
    /\ stack \in Seq(Frames(S)) /\ stack # <<>>
    /\ \A i \in 1..Len(stack) : FrameInv(request.pkg, stack[i])
    /\ \A i \in 2..Len(stack) : stack[i].todo # <<>>

\* A message that is begun.
LEMMA FrameBegun ==
    ASSUME NEW S, NEW msg \in STRING, NEW opts \in Seq(S)
    PROVE  Frame(msg, opts) \in Frames(S) /\ FrameInv(request.pkg, Frame(msg, opts))
<1> DEFINE f == Frame(msg, opts)
<1>1. f \in Frames(S) /\ f.given = opts /\ f.todo = opts /\ f.set = {} /\ Len(opts) \in Nat
  BY DEF Frame, Frames
<1> HIDE DEF f
<1>2. Count(f) = 0
  BY <1>1 DEF Count
<1> QED
  BY <1>1, <1>2 DEF FrameInv, f

\* One more option of a frame is dealt with, and what it leaves keeps the others.
LEMMA FrameNext ==
    ASSUME NEW S, NEW f \in Frames(S), FrameInv(request.pkg, f), f.todo # <<>>,
           NEW g \in Frames(S), g.msg = f.msg, g.given = f.given, g.todo = Tail(f.todo),
           \A s \in g.set : /\ s.by \in DOMAIN Options[request.pkg]
                            /\ Accepts(request.pkg, s.by, f.msg)
                            /\ s.field = FieldOf(request.pkg, s.by, f.msg),
           \A o : Kept(request.pkg, f, o) => Kept(request.pkg, g, o),
           Kept(request.pkg, g, Head(f.todo).opt)
    PROVE  FrameInv(request.pkg, g)
<1>1. f.given \in Seq(S) /\ f.todo \in Seq(S)
  BY DEF Frames
<1>2. /\ Len(f.given) \in Nat /\ Len(f.todo) \in Nat /\ Len(f.todo) > 0
      /\ Len(g.todo) = Len(f.todo) - 1 /\ Head(f.todo) = f.todo[1]
      /\ \A i \in 1..Len(g.todo) : g.todo[i] = f.todo[i + 1]
  BY <1>1, HeadTailProperties
<1>3. Count(f) \in Nat /\ Count(g) = Count(f) + 1
  <2>1. Count(f) \in Nat
    BY DEF FrameInv
  <2>2. Count(f) = Len(f.given) - Len(f.todo) /\ Count(g) = Len(f.given) - (Len(f.todo) - 1)
    BY <1>2 DEF Count
  <2>3. \A m, n \in Nat : m - (n - 1) = (m - n) + 1
    OBVIOUS
  <2> QED
    BY <1>2, <2>1, <2>2, <2>3
<1>4. \A i \in 1..Len(f.todo) : f.todo[i] = f.given[Count(f) + i]
  BY DEF FrameInv
<1>5. ASSUME NEW i \in 1..Len(g.todo)
      PROVE  g.todo[i] = g.given[Count(g) + i]
  <2>0. \A m, n \in Nat : \A k \in 1..(n - 1) :
            k + 1 \in 1..n /\ m + (k + 1) = (m + 1) + k
    OBVIOUS
  <2>1. i + 1 \in 1..Len(f.todo) /\ Count(f) + (i + 1) = Count(g) + i
    BY <1>2, <1>3, <2>0
  <2> QED
    BY <1>2, <1>4, <2>1
<1>6. f.given[Count(f) + 1] = Head(f.todo)
  BY <1>2, <1>4
<1>7. ASSUME NEW a \in 1..Count(g)
      PROVE  Kept(request.pkg, g, g.given[a].opt)
  <2>1. CASE a \in 1..Count(f)
    BY <2>1 DEF FrameInv
  <2>2. CASE a = Count(f) + 1
    BY <1>6, <2>2
  <2> QED
    BY <1>3, <2>1, <2>2
<1>8. Count(g) \in Nat
  BY <1>3
<1>9. \A s \in g.set : /\ s.by \in DOMAIN Options[request.pkg]
                       /\ Accepts(request.pkg, s.by, g.msg)
                       /\ s.field = FieldOf(request.pkg, s.by, g.msg)
  OBVIOUS
<1> QED
  BY <1>5, <1>7, <1>8, <1>9, Zenon DEF FrameInv

\* The field of the option at hand is set, and no other option loses its own.
LEMMA SetFieldKeeps ==
    ASSUME NEW S, ClosedOptions(request.pkg, S), request.pkg \in DOMAIN Options,
           NEW f \in Frames(S), FrameInv(request.pkg, f), f.todo # <<>>,
           Accepts(request.pkg, Head(f.todo).opt, f.msg)
    PROVE  SetField(f) \in Frames(S) /\ FrameInv(request.pkg, SetField(f))
<1> DEFINE o == Head(f.todo).opt
           field == FieldOf(request.pkg, o, f.msg)
           kept == IF Appends(f.msg, field) THEN f.set ELSE {s \in f.set : s.field # field}
           new == [field |-> field, by |-> o]
           g == SetField(f)
<1>1. /\ g = [f EXCEPT !.todo = Tail(f.todo), !.set = kept \cup {new}]
      /\ f.given \in Seq(S) /\ f.todo \in Seq(S) /\ f.msg \in STRING
      /\ f.set \subseteq [field : STRING, by : STRING]
  BY DEF SetField, FieldOf, Frames
<1>2. Head(f.todo) \in S /\ Tail(f.todo) \in Seq(S)
  BY <1>1, HeadTailProperties
<1>3. o \in DOMAIN Options[request.pkg] /\ f.msg \in DOMAIN Options[request.pkg][o]
  BY <1>2 DEF ClosedOptions, Accepts
<1>4. o \in STRING /\ field \in STRING
  BY <1>3, TablesAreOfNames DEF FieldOf
<1> HIDE DEF o, field, g
<1>5. /\ g.msg = f.msg /\ g.given = f.given /\ g.todo = Tail(f.todo) /\ g.set = kept \cup {new}
      /\ g \in Frames(S)
  <2>1. kept \cup {new} \subseteq [field : STRING, by : STRING]
    BY <1>1, <1>4
  <2> DEFINE set == kept \cup {new}
             todo == Tail(f.todo)
  <2>2. /\ g = [f EXCEPT !.todo = todo, !.set = set] /\ todo \in Seq(S)
        /\ set \in SUBSET [field : STRING, by : STRING]
    BY <1>1, <1>2, <2>1
  <2> HIDE DEF set, todo
  <2>3. /\ g.msg = f.msg /\ g.given = f.given /\ g.todo = todo /\ g.set = set
        /\ g \in Frames(S)
    BY <2>2 DEF Frames
  <2> QED
    BY <2>3 DEF set, todo
<1>6. \A s \in g.set : /\ s.by \in DOMAIN Options[request.pkg]
                       /\ Accepts(request.pkg, s.by, f.msg)
                       /\ s.field = FieldOf(request.pkg, s.by, f.msg)
  <2>1. /\ new.by = o /\ new.field = field /\ Accepts(request.pkg, o, f.msg)
        /\ field = FieldOf(request.pkg, o, f.msg)
    BY DEF o, field
  <2> QED
    BY <1>3, <1>5, <2>1 DEF FrameInv
<1>7. Kept(request.pkg, g, o)
  <2>1. new \in g.set /\ new.field = FieldOf(request.pkg, o, g.msg) /\ new.by = o
    BY <1>5 DEF field
  <2>2. Accepts(request.pkg, o, g.msg)
    BY <1>5 DEF o
  <2> QED
    BY <2>1, <2>2 DEF Kept
<1>8. ASSUME NEW p, Kept(request.pkg, f, p)
      PROVE  Kept(request.pkg, g, p)
  <2>1. CASE Ignores(request.pkg, p)
    BY <1>5, <2>1 DEF Kept
  <2>2. CASE ~Ignores(request.pkg, p)
    <3>1. /\ Accepts(request.pkg, p, f.msg)
          /\ \E s \in f.set : /\ s.field = FieldOf(request.pkg, p, f.msg)
                              /\ s.by = p \/ ~Appends(f.msg, s.field)
      BY <1>8, <2>2 DEF Kept
    <3>2. PICK s \in f.set : /\ s.field = FieldOf(request.pkg, p, f.msg)
                             /\ s.by = p \/ ~Appends(f.msg, s.field)
      BY <3>1
    <3>3. CASE s \in kept
      BY <1>5, <3>1, <3>2, <3>3 DEF Kept
    <3>4. CASE s \notin kept
      <4>1. s.field = field /\ ~Appends(f.msg, field)
        BY <3>2, <3>4
      <4>2. new \in g.set /\ new.field = FieldOf(request.pkg, p, g.msg) /\ ~Appends(g.msg, new.field)
        BY <1>5, <3>2, <4>1
      <4> QED
        BY <1>5, <3>1, <4>2 DEF Kept
    <3> QED
      BY <3>3, <3>4
  <2> QED
    BY <2>1, <2>2
<1>9. FrameInv(request.pkg, g)
  BY <1>5, <1>6, <1>7, <1>8, FrameNext DEF o
<1> QED
  BY <1>5, <1>9 DEF g

\* The stack without its first frame, or with another in its place.
LEMMA StackNext ==
    ASSUME NEW S, ReqIInv(S), UNCHANGED request,
           NEW frame \in Frames(S), FrameInv(request.pkg, frame),
           NEW below \in Seq(Frames(S)),
           \A i \in 1..Len(below) : FrameInv(request.pkg, below[i]) /\ below[i].todo # <<>>,
           stack' = <<frame>> \o below
    PROVE  ReqIInv(S)'
<1> DEFINE new == <<frame>> \o below
<1>1. <<frame>> \in Seq(Frames(S)) /\ Len(<<frame>>) = 1 /\ <<frame>>[1] = frame
  OBVIOUS
<1>2. /\ new \in Seq(Frames(S)) /\ Len(new) = 1 + Len(below) /\ Len(below) \in Nat
      /\ new[1] = frame
      /\ \A i \in 2..Len(new) : i - 1 \in 1..Len(below) /\ new[i] = below[i - 1]
  <2> DEFINE one == <<frame>>
  <2>1. one \in Seq(Frames(S)) /\ Len(one) = 1 /\ one[1] = frame
    BY <1>1
  <2> HIDE DEF one
  <2>2. /\ one \o below \in Seq(Frames(S))
        /\ Len(one \o below) = Len(one) + Len(below)
        /\ \A i \in 1..(Len(one) + Len(below)) :
               (one \o below)[i] = IF i <= Len(one) THEN one[i] ELSE below[i - Len(one)]
    BY <2>1, ConcatProperties
  <2>3. Len(below) \in Nat
    OBVIOUS
  <2>4. new = one \o below
    BY DEF one
  <2> HIDE DEF new
  <2> QED
    BY <2>1, <2>2, <2>3, <2>4
<1> HIDE DEF new
<1>3. request' = request
  OBVIOUS
<1>4. stack' = new
  BY DEF new
<1>5. /\ \A i \in 1..Len(new) : FrameInv(request.pkg, new[i])
      /\ \A i \in 2..Len(new) : new[i].todo # <<>>
  <2>1. ASSUME NEW i \in 1..Len(new), i # 1
        PROVE  FrameInv(request.pkg, new[i]) /\ new[i].todo # <<>>
    <3>1. i \in 2..Len(new)
      BY <1>2, <2>1
    <3>2. i - 1 \in 1..Len(below) /\ new[i] = below[i - 1]
      BY <1>2, <3>1
    <3> QED
      BY <3>2
  <2>2. \A i \in 2..Len(new) : i \in 1..Len(new) /\ i # 1
    BY <1>2
  <2> QED
    BY <1>2, <2>1, <2>2
<1>6. new # <<>>
  BY <1>2, EmptySeq
<1>7. /\ (\A i \in 1..Len(stack) : FrameInv(request.pkg, stack[i]))'
      /\ (\A i \in 2..Len(stack) : stack[i].todo # <<>>)'
  BY <1>3, <1>4, <1>5
<1>8. (request.pkg \in DOMAIN Options /\ ClosedOptions(request.pkg, S))'
  BY <1>3 DEF ReqIInv, ClosedOptions
<1>9. stack' \in Seq(Frames(S)) /\ stack' # <<>>
  BY <1>2, <1>4, <1>6
<1> QED
  BY <1>7, <1>8, <1>9 DEF ReqIInv

LEMMA ReqNextInv ==
    ASSUME NEW S
    PROVE  ReqIInv(S) /\ [ReqNext]_reqVars => ReqIInv(S)'
<1> SUFFICES ASSUME ReqIInv(S), [ReqNext]_reqVars PROVE ReqIInv(S)'
  OBVIOUS
<1>1. /\ stack \in Seq(Frames(S)) /\ Len(stack) \in Nat /\ Len(stack) >= 1
      /\ Top \in Frames(S) /\ Top = stack[1] /\ FrameInv(request.pkg, Top)
      /\ Tail(stack) \in Seq(Frames(S)) /\ Len(Tail(stack)) = Len(stack) - 1
      /\ \A i \in 1..Len(Tail(stack)) : Tail(stack)[i] = stack[i + 1]
  <2>1. stack \in Seq(Frames(S)) /\ stack # <<>>
    BY DEF ReqIInv
  <2>2. Len(stack) \in Nat /\ Len(stack) >= 1 /\ Head(stack) = stack[1]
    BY <2>1
  <2> QED
    BY <2>1, <2>2, HeadTailProperties DEF ReqIInv, Top
<1>2. \A i \in 1..Len(Tail(stack)) : FrameInv(request.pkg, Tail(stack)[i]) /\ Tail(stack)[i].todo # <<>>
  <2> SUFFICES ASSUME NEW i \in 1..Len(Tail(stack))
               PROVE  FrameInv(request.pkg, Tail(stack)[i]) /\ Tail(stack)[i].todo # <<>>
    OBVIOUS
  <2>1. i + 1 \in 2..Len(stack) /\ i + 1 \in 1..Len(stack)
    BY <1>1
  <2> QED
    BY <1>1, <2>1 DEF ReqIInv
<1>3. request.pkg \in DOMAIN Options /\ ClosedOptions(request.pkg, S)
  BY DEF ReqIInv
<1>4. CASE ReqApply
  <2>1. Top.todo # <<>> /\ Accepts(request.pkg, Head(Top.todo).opt, Top.msg)
    BY <1>4 DEF ReqApply, Applying, Accepted, Current
  <2>2. SetField(Top) \in Frames(S) /\ FrameInv(request.pkg, SetField(Top))
    BY <1>1, <1>3, <2>1, SetFieldKeeps
  <2> QED
    BY <1>1, <1>2, <1>4, <2>2, StackNext DEF ReqApply
<1>5. CASE ReqEnter
  <2>1. Top.todo # <<>> /\ Top.todo \in Seq(S) /\ Current \in S
    BY <1>1, <1>5, HeadTailProperties DEF ReqEnter, Applying, Frames, Current
  <2> DEFINE f == Frame(Nested[request.pkg][Current.opt], Current.opts)
  <2>2. Nested[request.pkg][Current.opt] \in STRING /\ Current.opts \in Seq(S)
    BY <1>3, <1>5, <2>1, TablesAreOfNames DEF ReqEnter, OfNested, ClosedOptions
  <2>3. f \in Frames(S) /\ FrameInv(request.pkg, f)
    BY <2>2, FrameBegun
  <2>4. \A i \in 1..Len(stack) : FrameInv(request.pkg, stack[i]) /\ stack[i].todo # <<>>
    <3> SUFFICES ASSUME NEW i \in 1..Len(stack)
                 PROVE  FrameInv(request.pkg, stack[i]) /\ stack[i].todo # <<>>
      OBVIOUS
    <3>1. i = 1 \/ i \in 2..Len(stack)
      BY <1>1
    <3> QED
      BY <1>1, <2>1, <3>1 DEF ReqIInv
  <2>5. stack' = <<f>> \o stack /\ UNCHANGED request
    BY <1>5 DEF ReqEnter
  <2> HIDE DEF f
  <2> QED
    BY <1>1, <2>3, <2>4, <2>5, StackNext
<1>6. CASE ReqLeave /\ outcome' # "type"
  <2>1. /\ Len(stack) > 1 /\ UNCHANGED request
        /\ Accepts(request.pkg, Head(stack[2].todo).opt, stack[2].msg)
        /\ stack' = <<SetField(stack[2])>> \o Tail(Tail(stack))
    BY <1>6 DEF ReqLeave
  <2> DEFINE rest == Tail(stack)
  <2>2. rest \in Seq(Frames(S)) /\ Len(rest) \in Nat /\ Len(rest) >= 1 /\ rest # <<>>
    <3>1. rest \in Seq(Frames(S)) /\ Len(rest) = Len(stack) - 1
      BY <1>1
    <3> HIDE DEF rest
    <3>2. Len(rest) \in Nat /\ Len(rest) >= 1
      BY <1>1, <2>1, <3>1
    <3>3. rest # <<>>
      BY <3>2, EmptySeq
    <3> QED
      BY <3>1, <3>2, <3>3
  <2> HIDE DEF rest
  <2>3. /\ Tail(rest) \in Seq(Frames(S)) /\ Len(Tail(rest)) = Len(rest) - 1
        /\ \A i \in 1..Len(Tail(rest)) : Tail(rest)[i] = rest[i + 1]
    BY <2>2, HeadTailProperties
  <2>4. \A i \in 1..Len(Tail(rest)) : FrameInv(request.pkg, Tail(rest)[i]) /\ Tail(rest)[i].todo # <<>>
    <3> SUFFICES ASSUME NEW i \in 1..Len(Tail(rest))
                 PROVE  FrameInv(request.pkg, Tail(rest)[i]) /\ Tail(rest)[i].todo # <<>>
      OBVIOUS
    <3>1. i + 1 \in 1..Len(rest)
      BY <2>2, <2>3
    <3> QED
      BY <1>2, <2>3, <3>1 DEF rest
  <2>5. stack[2] = rest[1] /\ 1 \in 1..Len(rest)
    <3>1. 1 \in 1..Len(rest)
      BY <2>2
    <3>2. rest[1] = stack[1 + 1]
      BY <1>1, <3>1 DEF rest
    <3> QED
      BY <3>1, <3>2
  <2>6. stack[2] \in Frames(S) /\ FrameInv(request.pkg, stack[2]) /\ stack[2].todo # <<>>
    <3>1. FrameInv(request.pkg, rest[1]) /\ rest[1].todo # <<>>
      BY <1>2, <2>5 DEF rest
    <3> QED
      BY <2>2, <2>5, <3>1
  <2>7. SetField(stack[2]) \in Frames(S) /\ FrameInv(request.pkg, SetField(stack[2]))
    BY <1>3, <2>1, <2>6, SetFieldKeeps
  <2>8. stack' = <<SetField(stack[2])>> \o Tail(rest)
    BY <2>1 DEF rest
  <2> QED
    BY <2>1, <2>3, <2>4, <2>7, <2>8, StackNext
<1>7. CASE ReqIgnore
  <2> DEFINE g == [Top EXCEPT !.todo = Tail(@)]
  <2>1. /\ Top.todo # <<>> /\ Ignores(request.pkg, Head(Top.todo).opt)
        /\ stack' = <<g>> \o Tail(stack) /\ UNCHANGED request
    BY <1>7 DEF ReqIgnore, Applying, Current
  <2>2. Top.todo \in Seq(S) /\ Tail(Top.todo) \in Seq(S)
    BY <1>1, <2>1, HeadTailProperties DEF Frames
  <2>3. /\ g \in Frames(S) /\ g.msg = Top.msg /\ g.given = Top.given
        /\ g.todo = Tail(Top.todo) /\ g.set = Top.set
    BY <1>1, <2>2 DEF Frames
  <2> HIDE DEF g
  <2>4. /\ \A o : Kept(request.pkg, Top, o) => Kept(request.pkg, g, o)
        /\ Kept(request.pkg, g, Head(Top.todo).opt)
    BY <2>1, <2>3 DEF Kept
  <2>5. \A s \in g.set : /\ s.by \in DOMAIN Options[request.pkg]
                         /\ Accepts(request.pkg, s.by, Top.msg)
                         /\ s.field = FieldOf(request.pkg, s.by, Top.msg)
    BY <1>1, <2>3 DEF FrameInv
  <2>6. FrameInv(request.pkg, g)
    BY <1>1, <2>1, <2>3, <2>4, <2>5, FrameNext
  <2> QED
    BY <1>1, <1>2, <2>1, <2>3, <2>6, StackNext
<1>8. CASE UNCHANGED <<request, stack>>
  BY <1>8 DEF ReqIInv, ClosedOptions, FrameInv, Kept, FieldOf
<1> QED
  BY <1>4, <1>5, <1>6, <1>7, <1>8
     DEF ReqNext, ReqLeave, ReqRefuseType, ReqRefuseValue, ReqDone, reqVars

\* The first frame.
LEMMA ReqAnyInitInv ==
    ASSUME NEW S
    PROVE  ReqAnyInit(S) => ReqIInv(S)
<1> SUFFICES ASSUME ReqAnyInit(S) PROVE ReqIInv(S)
  OBVIOUS
<1> DEFINE f == Frame(request.msg, request.opts)
<1>1. f \in Frames(S) /\ FrameInv(request.pkg, f)
  BY FrameBegun DEF ReqAnyInit
<1>2. stack = <<f>>
  BY DEF ReqAnyInit
<1> HIDE DEF f
<1>3. stack \in Seq(Frames(S)) /\ Len(stack) = 1 /\ stack[1] = f /\ stack # <<>>
  BY <1>1, <1>2
<1> QED
  BY <1>1, <1>3 DEF ReqAnyInit, ReqIInv

\* What a frame keeps is what the property asks for.
LEMMA ReqIInvKeeps ==
    ASSUME NEW S
    PROVE  ReqIInv(S) => RequestKeepsEveryOption
<1> SUFFICES ASSUME ReqIInv(S), NEW i \in DOMAIN stack, NEW a \in DOMAIN Applied(stack[i])
             PROVE  LET frame == stack[i]
                        o     == frame.given[a].opt
                    IN  \/ \E s \in frame.set : s.by = o
                        \/ Ignores(request.pkg, o)
                        \/ \E s \in frame.set : Variants(request.pkg, s.by, o)
  BY DEF RequestKeepsEveryOption
<1> DEFINE frame == stack[i]
           o == frame.given[a].opt
<1>1. /\ frame \in Frames(S) /\ FrameInv(request.pkg, frame)
      /\ request.pkg \in DOMAIN Options /\ ClosedOptions(request.pkg, S)
  BY DEF ReqIInv
<1> HIDE DEF frame
<1>2. /\ frame.given \in Seq(S) /\ Len(frame.given) \in Nat /\ Len(frame.todo) \in Nat
      /\ Count(frame) \in Nat /\ Count(frame) <= Len(frame.given)
  BY <1>1 DEF Frames, FrameInv, Count
<1>3. a \in 1..Count(frame)
  <2> DEFINE n == Count(frame)
             app == SubSeq(frame.given, 1, n)
  <2>1. \A k \in 1..n : frame.given[k] \in S
    BY <1>2
  <2>2. n \in Int /\ 1 \in Int
    BY <1>2
  <2> HIDE DEF n
  <2>3. app \in Seq(S) /\ Len(app) = IF 1 <= n THEN n - 1 + 1 ELSE 0
    BY <2>1, <2>2, SubSeqProperties
  <2>4. a \in DOMAIN app
    BY DEF Applied, Count, frame, n
  <2> HIDE DEF app
  <2>5. DOMAIN app = 1..Len(app)
    BY <2>3
  <2>6. n \in Nat
    BY <1>2 DEF n
  <2> QED
    BY <2>3, <2>4, <2>5, <2>6 DEF n
<1>4. Kept(request.pkg, frame, o) /\ frame.given[a] \in S
  BY <1>1, <1>2, <1>3 DEF FrameInv
<1>5. o \in DOMAIN Options[request.pkg]
  BY <1>1, <1>4 DEF ClosedOptions
<1> HIDE DEF o
<1>6. ASSUME ~Ignores(request.pkg, o)
      PROVE  \E s \in frame.set : s.by = o \/ Variants(request.pkg, s.by, o)
  <2>1. Accepts(request.pkg, o, frame.msg)
    BY <1>4, <1>6 DEF Kept
  <2>2. PICK s \in frame.set : /\ s.field = FieldOf(request.pkg, o, frame.msg)
                               /\ s.by = o \/ ~Appends(frame.msg, s.field)
    BY <1>4, <1>6 DEF Kept
  <2>3. /\ s.by \in DOMAIN Options[request.pkg]
        /\ Accepts(request.pkg, s.by, frame.msg)
        /\ s.field = FieldOf(request.pkg, s.by, frame.msg)
    BY <1>1, <2>2 DEF FrameInv
  <2>4. CASE s.by # o
    <3>1. /\ frame.msg \in DOMAIN Options[request.pkg][o] \cap DOMAIN Options[request.pkg][s.by]
          /\ Options[request.pkg][o][frame.msg] = Options[request.pkg][s.by][frame.msg]
          /\ ~Appends(frame.msg, Options[request.pkg][o][frame.msg])
      BY <2>1, <2>2, <2>3, <2>4 DEF Accepts, FieldOf
    <3>2. Variants(request.pkg, s.by, o)
      BY <1>1, <1>5, <2>3, <2>4, <3>1, OptionsShareNoField
    <3> QED
      BY <3>2
  <2> QED
    BY <2>2, <2>4
<1> QED
  BY <1>6 DEF frame, o

\* Of any number of options given to a builder, nested to any depth, none is dropped
\* and none overwritten by another.
THEOREM RequestsKeepOptions ==
    ASSUME NEW CONSTANT S
    PROVE  ReqAnySpec(S) => []RequestKeepsEveryOption
BY ReqAnyInitInv, ReqNextInv, ReqIInvKeeps, PTL DEF ReqAnySpec

\* The options of the commands and of the package's users are closed.
LEMMA BranchesAreClosed ==
    ASSUME NEW pkg \in DOMAIN Options
    PROVE  ClosedOptions(pkg, Branches(pkg))
<1>1. Leaves(pkg) \subseteq Branches(pkg)
  BY EmptySeq DEF Leaves, Branches, OptionsOf
<1>2. Seq(Leaves(pkg)) \subseteq Seq(Branches(pkg))
  BY <1>1
<1> QED
  BY <1>2 DEF Branches, OptionsOf, ClosedOptions

\* In particular, none of the options of gNOIc's commands.
THEOREM CommandsKeepOptions == ReqSpec => []RequestKeepsEveryOption
<1> DEFINE Inv == \E pkg \in DOMAIN Options : ReqIInv(Branches(pkg))
<1>1. ReqInit => Inv
  <2> SUFFICES ASSUME ReqInit PROVE ReqIInv(Branches(request.pkg)) /\ request.pkg \in DOMAIN Options
    OBVIOUS
  <2> QED
    BY RequestsAreOfOptions, BranchesAreClosed, ReqAnyInitInv DEF ReqInit, ReqAnyInit
<1>2. Inv /\ [ReqNext]_reqVars => Inv'
  <2> SUFFICES ASSUME NEW pkg \in DOMAIN Options, ReqIInv(Branches(pkg)), [ReqNext]_reqVars
               PROVE  ReqIInv(Branches(pkg))'
    OBVIOUS
  <2> QED
    BY ReqNextInv
<1>3. Inv => RequestKeepsEveryOption
  BY ReqIInvKeeps
<1> QED
  BY <1>1, <1>2, <1>3, PTL DEF ReqSpec

-----------------------------------------------------------------------------
\* Options that fit: a set of options, each with the message it is given to, that
\* holds with an option that builds a message the options of that message.
FittingOptions(pkg, W) ==
    \A w \in W :
        /\ Fits(pkg, w[1], w[2])
        /\ w[2].opt \in DOMAIN Nested[pkg] =>
               \A k \in DOMAIN w[2].opts : <<Nested[pkg][w[2].opt], w[2].opts[k]>> \in W
FrameFits(W, frame) == \A j \in 1..Len(frame.todo) : <<frame.msg, frame.todo[j]>> \in W

\* The builder got through, or stopped at a value of its user.
BuildsRequest ==
    \/ outcome \in {"building", "built"}
    \/ outcome = "value" /\ Current.value = "user"

\* Whatever is still to be applied fits the message it is applied to.
FitInv(W) ==
    /\ FittingOptions(request.pkg, W)
    /\ \A i \in 1..Len(stack) : FrameFits(W, stack[i])
    /\ BuildsRequest

\* The first option of a frame fits, and the others do without it.
LEMMA FrameFitsNext ==
    ASSUME NEW S, NEW W, NEW f \in Frames(S), f.todo # <<>>, FrameFits(W, f)
    PROVE  /\ <<f.msg, Head(f.todo)>> \in W
           /\ \A g : g.msg = f.msg /\ g.todo = Tail(f.todo) => FrameFits(W, g)
<1>1. f.todo \in Seq(S)
  BY DEF Frames
<1>2. /\ Len(f.todo) \in Nat /\ Len(f.todo) >= 1
      /\ Len(Tail(f.todo)) = Len(f.todo) - 1 /\ Head(f.todo) = f.todo[1]
      /\ \A j \in 1..Len(Tail(f.todo)) : Tail(f.todo)[j] = f.todo[j + 1]
  BY <1>1, HeadTailProperties
<1>3. <<f.msg, Head(f.todo)>> \in W
  <2>1. 1 \in 1..Len(f.todo)
    BY <1>2
  <2> QED
    BY <1>2, <2>1 DEF FrameFits
<1>4. ASSUME NEW g, g.msg = f.msg, g.todo = Tail(f.todo), NEW j \in 1..Len(g.todo)
      PROVE  <<g.msg, g.todo[j]>> \in W
  <2>1. j + 1 \in 1..Len(f.todo) /\ g.todo[j] = f.todo[j + 1]
    BY <1>2, <1>4
  <2> QED
    BY <1>4, <2>1 DEF FrameFits
<1> QED
  BY <1>3, <1>4 DEF FrameFits

\* A stack whose first frame was replaced.
LEMMA FitStackNext ==
    ASSUME NEW S, NEW W, FitInv(W), UNCHANGED <<request, outcome>>, outcome = "building",
           NEW frame \in Frames(S), FrameFits(W, frame),
           NEW below \in Seq(Frames(S)),
           \A i \in 1..Len(below) : FrameFits(W, below[i]),
           stack' = <<frame>> \o below
    PROVE  FitInv(W)'
<1> DEFINE one == <<frame>>
<1>1. one \in Seq(Frames(S)) /\ Len(one) = 1 /\ one[1] = frame /\ Len(below) \in Nat
  OBVIOUS
<1>2. stack' = one \o below
  OBVIOUS
<1> HIDE DEF one
<1>3. /\ Len(stack') = 1 + Len(below)
      /\ \A i \in 1..Len(stack') : stack'[i] = IF i <= 1 THEN frame ELSE below[i - 1]
  BY <1>1, <1>2, ConcatProperties
<1>4. ASSUME NEW i \in 1..Len(stack')
      PROVE  FrameFits(W, stack'[i])
  <2>1. i = 1 \/ i - 1 \in 1..Len(below)
    BY <1>1, <1>3
  <2>2. CASE i = 1
    BY <1>3, <2>2
  <2>3. CASE i # 1
    <3>1. i - 1 \in 1..Len(below) /\ stack'[i] = below[i - 1]
      BY <1>3, <2>1, <2>3
    <3> QED
      BY <3>1
  <2> QED
    BY <2>2, <2>3
<1>5. FittingOptions(request.pkg, W)'
  BY DEF FitInv, FittingOptions, Fits, Accepts
<1>6. BuildsRequest'
  BY DEF BuildsRequest
<1>7. (\A i \in 1..Len(stack) : FrameFits(W, stack[i]))'
  BY <1>4
<1> QED
  BY <1>5, <1>6, <1>7 DEF FitInv

LEMMA FitNext ==
    ASSUME NEW S, NEW W
    PROVE  ReqIInv(S) /\ FitInv(W) /\ [ReqNext]_reqVars => FitInv(W)'
<1> SUFFICES ASSUME ReqIInv(S), FitInv(W), [ReqNext]_reqVars PROVE FitInv(W)'
  OBVIOUS
<1> DEFINE rest == Tail(stack)
<1>1. /\ stack \in Seq(Frames(S)) /\ Len(stack) \in Nat /\ Len(stack) >= 1
      /\ Top \in Frames(S) /\ Top = stack[1] /\ FrameFits(W, Top)
  <2>1. stack \in Seq(Frames(S)) /\ stack # <<>>
    BY DEF ReqIInv
  <2>2. Len(stack) \in Nat /\ Len(stack) >= 1 /\ Head(stack) = stack[1] /\ 1 \in 1..Len(stack)
    BY <2>1
  <2>3. stack[1] \in Frames(S) /\ FrameFits(W, stack[1])
    BY <2>1, <2>2 DEF FitInv
  <2> QED
    BY <2>1, <2>2, <2>3 DEF Top
<1>2. /\ rest \in Seq(Frames(S)) /\ Len(rest) = Len(stack) - 1
      /\ \A i \in 1..Len(rest) : rest[i] = stack[i + 1]
      /\ \A i \in 1..Len(rest) : FrameFits(W, rest[i])
  <2>1. /\ rest \in Seq(Frames(S)) /\ Len(rest) = Len(stack) - 1
        /\ \A i \in 1..Len(rest) : rest[i] = stack[i + 1]
    <3>1. stack # <<>>
      BY DEF ReqIInv
    <3> QED
      BY <1>1, <3>1, HeadTailProperties
  <2>2. ASSUME NEW i \in 1..Len(rest) PROVE FrameFits(W, rest[i])
    <3>1. i + 1 \in 1..Len(stack) /\ rest[i] = stack[i + 1]
      BY <1>1, <2>1
    <3> QED
      BY <3>1 DEF FitInv
  <2> QED
    BY <2>1, <2>2
<1> HIDE DEF rest
<1>3. Top.todo # <<>> =>
          /\ Fits(request.pkg, Top.msg, Current)
          /\ Current.opt \in DOMAIN Nested[request.pkg] =>
                 \A k \in DOMAIN Current.opts :
                     <<Nested[request.pkg][Current.opt], Current.opts[k]>> \in W
          /\ \A g : g.msg = Top.msg /\ g.todo = Tail(Top.todo) => FrameFits(W, g)
  <2> SUFFICES ASSUME Top.todo # <<>>
               PROVE  /\ Fits(request.pkg, Top.msg, Current)
                      /\ Current.opt \in DOMAIN Nested[request.pkg] =>
                             \A k \in DOMAIN Current.opts :
                                 <<Nested[request.pkg][Current.opt], Current.opts[k]>> \in W
                      /\ \A g : g.msg = Top.msg /\ g.todo = Tail(Top.todo) => FrameFits(W, g)
    OBVIOUS
  <2>1. <<Top.msg, Current>> \in W
    BY <1>1, FrameFitsNext DEF Current
  <2>2. \A g : g.msg = Top.msg /\ g.todo = Tail(Top.todo) => FrameFits(W, g)
    BY <1>1, FrameFitsNext
  <2> DEFINE w == <<Top.msg, Current>>
  <2>3. w[1] = Top.msg /\ w[2] = Current /\ w \in W
    BY <2>1
  <2> HIDE DEF w
  <2>4. /\ Fits(request.pkg, w[1], w[2])
        /\ w[2].opt \in DOMAIN Nested[request.pkg] =>
               \A k \in DOMAIN w[2].opts :
                   <<Nested[request.pkg][w[2].opt], w[2].opts[k]>> \in W
    BY <2>3 DEF FitInv, FittingOptions
  <2> QED
    BY <2>2, <2>3, <2>4
<1>4. CASE ReqApply \/ ReqIgnore
  <2>1. PICK g \in Frames(S) :
            /\ g.msg = Top.msg /\ g.todo = Tail(Top.todo) /\ stack' = <<g>> \o rest
    <3>1. CASE ReqApply
      <4>1. SetField(Top) \in Frames(S)
        BY <1>1, <3>1, SetFieldKeeps DEF ReqIInv, ReqApply, Applying, Accepted, Current
      <4>2. SetField(Top).msg = Top.msg /\ SetField(Top).todo = Tail(Top.todo)
        BY <1>1 DEF SetField, Frames
      <4> QED
        BY <3>1, <4>1, <4>2 DEF ReqApply, rest
    <3>2. CASE ReqIgnore
      <4> DEFINE g == [Top EXCEPT !.todo = Tail(@)]
      <4>1. Tail(Top.todo) \in Seq(S)
        BY <1>1, <3>2, HeadTailProperties DEF Frames, ReqIgnore, Applying
      <4>2. g \in Frames(S) /\ g.msg = Top.msg /\ g.todo = Tail(Top.todo)
        BY <1>1, <4>1 DEF Frames
      <4>3. stack' = <<g>> \o rest
        BY <3>2 DEF ReqIgnore, rest
      <4> QED
        BY <4>2, <4>3
    <3> QED
      BY <1>4, <3>1, <3>2
  <2>2. /\ Top.todo # <<>> /\ UNCHANGED <<request, outcome>> /\ outcome = "building"
    BY <1>4 DEF ReqApply, ReqIgnore, Applying
  <2>3. FrameFits(W, g)
    BY <1>3, <2>1, <2>2
  <2> QED
    BY <1>2, <2>1, <2>2, <2>3, FitStackNext
<1>5. CASE ReqEnter
  <2> DEFINE f == Frame(Nested[request.pkg][Current.opt], Current.opts)
  <2>1. /\ Top.todo # <<>> /\ UNCHANGED <<request, outcome>> /\ outcome = "building"
        /\ Current.opt \in DOMAIN Nested[request.pkg] /\ stack' = <<f>> \o stack
    BY <1>5 DEF ReqEnter, Applying, OfNested
  <2>2. Current \in S /\ request.pkg \in DOMAIN Options
    BY <1>1, <2>1, HeadTailProperties DEF Frames, Current, ReqIInv
  <2>3. Nested[request.pkg][Current.opt] \in STRING /\ Current.opts \in Seq(S)
    BY <2>1, <2>2, TablesAreOfNames DEF ReqIInv, ClosedOptions
  <2>4. f \in Frames(S) /\ f.msg = Nested[request.pkg][Current.opt] /\ f.todo = Current.opts
    BY <2>3 DEF Frame, Frames
  <2>5. FrameFits(W, f)
    <3>1. DOMAIN Current.opts = 1..Len(Current.opts)
      BY <2>3
    <3> QED
      BY <1>3, <2>1, <2>4, <3>1 DEF FrameFits
  <2> HIDE DEF f
  <2>6. \A i \in 1..Len(stack) : FrameFits(W, stack[i])
    BY DEF FitInv
  <2> QED
    BY <1>1, <2>1, <2>4, <2>5, <2>6, FitStackNext
<1>6. CASE ReqLeave
  <2>1. /\ Len(stack) > 1 /\ request' = request /\ outcome = "building"
    BY <1>6 DEF ReqLeave
  <2>2. Len(rest) \in Nat /\ Len(rest) >= 1 /\ rest # <<>> /\ rest[1] = stack[2] /\ 2 \in 2..Len(stack)
        /\ 1 \in 1..Len(rest)
    <3>1. Len(rest) \in Nat /\ Len(rest) >= 1 /\ 1 \in 1..Len(rest) /\ 2 \in 2..Len(stack)
      BY <1>1, <1>2, <2>1
    <3>2. rest # <<>>
      BY <3>1, EmptySeq
    <3>3. rest[1] = stack[1 + 1]
      BY <1>2, <3>1
    <3> QED
      BY <3>1, <3>2, <3>3
  <2>3. /\ stack[2] \in Frames(S) /\ FrameFits(W, stack[2]) /\ stack[2].todo # <<>>
        /\ FrameInv(request.pkg, stack[2])
    <3>1. stack[2] \in Frames(S) /\ FrameFits(W, stack[2])
      BY <1>2, <2>2
    <3>2. 2 \in 1..Len(stack)
      BY <2>2
    <3> QED
      BY <2>2, <3>1, <3>2 DEF ReqIInv
  <2>4. <<stack[2].msg, Head(stack[2].todo)>> \in W
    BY <2>3, FrameFitsNext
  <2>5. Accepts(request.pkg, Head(stack[2].todo).opt, stack[2].msg)
    <3> DEFINE w == <<stack[2].msg, Head(stack[2].todo)>>
    <3>1. w[1] = stack[2].msg /\ w[2] = Head(stack[2].todo) /\ w \in W
      BY <2>4
    <3> HIDE DEF w
    <3> QED
      BY <3>1 DEF FitInv, FittingOptions, Fits
  <2> DEFINE g == SetField(stack[2])
  <2>6. stack' = <<g>> \o Tail(rest) /\ outcome' = outcome
    BY <1>6, <2>5 DEF ReqLeave, rest
  <2>7. g \in Frames(S) /\ g.msg = stack[2].msg /\ g.todo = Tail(stack[2].todo)
    <3>1. g \in Frames(S)
      BY <2>3, <2>5, SetFieldKeeps DEF ReqIInv
    <3> QED
      BY <2>3, <3>1 DEF SetField, Frames
  <2> HIDE DEF g
  <2>8. FrameFits(W, g)
    BY <2>3, <2>7, FrameFitsNext
  <2>9. /\ Tail(rest) \in Seq(Frames(S)) /\ Len(Tail(rest)) = Len(rest) - 1
        /\ \A i \in 1..Len(Tail(rest)) : Tail(rest)[i] = rest[i + 1]
    BY <1>2, <2>2, HeadTailProperties
  <2>10. \A i \in 1..Len(Tail(rest)) : FrameFits(W, Tail(rest)[i])
    <3> SUFFICES ASSUME NEW i \in 1..Len(Tail(rest)) PROVE FrameFits(W, Tail(rest)[i])
      OBVIOUS
    <3>1. i + 1 \in 1..Len(rest) /\ Tail(rest)[i] = rest[i + 1]
      BY <2>2, <2>9
    <3> QED
      BY <1>2, <3>1
  <2> QED
    BY <2>1, <2>6, <2>7, <2>8, <2>9, <2>10, FitStackNext
<1>7. CASE ReqRefuseType
  BY <1>3, <1>7 DEF ReqRefuseType, Applying, Accepted, Fits
<1>8. CASE ReqRefuseValue
  <2>1. Current.value = "user" /\ outcome' = "value" /\ UNCHANGED <<request, stack>>
    BY <1>3, <1>8 DEF ReqRefuseValue, Applying, Fits
  <2>2. BuildsRequest'
    BY <2>1 DEF BuildsRequest, Current, Top
  <2> QED
    BY <2>1, <2>2 DEF FitInv, FittingOptions, Fits, Accepts
<1>9. CASE ReqDone
  BY <1>9 DEF ReqDone, FitInv, FittingOptions, Fits, Accepts, BuildsRequest
<1>10. CASE UNCHANGED reqVars
  BY <1>10 DEF reqVars, FitInv, FittingOptions, Fits, Accepts, BuildsRequest, Current, Top
<1> QED
  BY <1>4, <1>5, <1>6, <1>7, <1>8, <1>9, <1>10 DEF ReqNext

\* Options that fit their messages, any number of them and nested to any depth, are
\* built into a request: only a value that the user chose can stop the builder.
THEOREM FittingOptionsAreBuilt ==
    ASSUME NEW CONSTANT S, NEW CONSTANT W
    PROVE  /\ ReqAnySpec(S)
           /\ FittingOptions(request.pkg, W)
           /\ \A i \in DOMAIN request.opts : <<request.msg, request.opts[i]>> \in W
           => []BuildsRequest
<1> DEFINE Asked == /\ FittingOptions(request.pkg, W)
                    /\ \A i \in DOMAIN request.opts : <<request.msg, request.opts[i]>> \in W
<1>1. ReqAnyInit(S) /\ Asked => FitInv(W)
  <2> SUFFICES ASSUME ReqAnyInit(S), Asked PROVE FitInv(W)
    OBVIOUS
  <2> DEFINE f == Frame(request.msg, request.opts)
  <2>1. f.msg = request.msg /\ f.todo = request.opts /\ stack = <<f>> /\ outcome = "building"
    BY DEF ReqAnyInit, Frame
  <2>2. DOMAIN request.opts = 1..Len(request.opts)
    BY DEF ReqAnyInit
  <2> HIDE DEF f
  <2>3. FrameFits(W, f)
    BY <2>1, <2>2 DEF FrameFits
  <2>4. Len(stack) = 1 /\ stack[1] = f
    BY <2>1
  <2> QED
    BY <2>1, <2>3, <2>4 DEF FitInv, BuildsRequest
<1>2. FitInv(W) => BuildsRequest
  BY DEF FitInv
<1> QED
  BY <1>1, <1>2, FitNext, ReqAnyInitInv, ReqNextInv, PTL DEF ReqAnySpec

\* The options of a command's request, and those these are given.
OptionsUnder(pkg, o) == {<<Nested[pkg][o.opt], o.opts[k]>> : k \in DOMAIN o.opts}
OptionsFor(r) ==
    {<<r.msg, r.opts[i]>> : i \in DOMAIN r.opts}
    \cup UNION {OptionsUnder(r.pkg, r.opts[i])
                : i \in {j \in DOMAIN r.opts : r.opts[j].opt \in DOMAIN Nested[r.pkg]}}

LEMMA OptionsForFit ==
    ASSUME NEW r \in Commands, r.cmd # "load"
    PROVE  FittingOptions(r.pkg, OptionsFor(r))
<1> SUFFICES ASSUME NEW w \in OptionsFor(r)
             PROVE  /\ Fits(r.pkg, w[1], w[2])
                    /\ w[2].opt \in DOMAIN Nested[r.pkg] =>
                           \A k \in DOMAIN w[2].opts :
                               <<Nested[r.pkg][w[2].opt], w[2].opts[k]>> \in OptionsFor(r)
  BY DEF FittingOptions
<1>1. \A i \in DOMAIN r.opts :
          /\ Fits(r.pkg, r.msg, r.opts[i])
          /\ r.opts[i].opt \in DOMAIN Nested[r.pkg] =>
                 \A k \in DOMAIN r.opts[i].opts :
                     /\ Fits(r.pkg, Nested[r.pkg][r.opts[i].opt], r.opts[i].opts[k])
                     /\ r.opts[i].opts[k].opt \notin DOMAIN Nested[r.pkg]
  BY CommandsFit
<1>2. CASE \E i \in DOMAIN r.opts : w = <<r.msg, r.opts[i]>>
  <2>1. PICK i \in DOMAIN r.opts : w = <<r.msg, r.opts[i]>>
    BY <1>2
  <2>2. w[1] = r.msg /\ w[2] = r.opts[i]
    BY <2>1
  <2>3. ASSUME r.opts[i].opt \in DOMAIN Nested[r.pkg], NEW k \in DOMAIN r.opts[i].opts
        PROVE  <<Nested[r.pkg][r.opts[i].opt], r.opts[i].opts[k]>> \in OptionsFor(r)
    <3>1. <<Nested[r.pkg][r.opts[i].opt], r.opts[i].opts[k]>> \in OptionsUnder(r.pkg, r.opts[i])
      BY DEF OptionsUnder
    <3> QED
      BY <2>3, <3>1 DEF OptionsFor
  <2> QED
    BY <1>1, <2>2, <2>3
<1>3. CASE \E i \in DOMAIN r.opts : /\ r.opts[i].opt \in DOMAIN Nested[r.pkg]
                                    /\ \E k \in DOMAIN r.opts[i].opts :
                                           w = <<Nested[r.pkg][r.opts[i].opt], r.opts[i].opts[k]>>
  <2>0. PICK i \in DOMAIN r.opts :
            /\ r.opts[i].opt \in DOMAIN Nested[r.pkg]
            /\ \E k \in DOMAIN r.opts[i].opts :
                   w = <<Nested[r.pkg][r.opts[i].opt], r.opts[i].opts[k]>>
    BY <1>3
  <2>1. PICK k \in DOMAIN r.opts[i].opts :
            w = <<Nested[r.pkg][r.opts[i].opt], r.opts[i].opts[k]>>
    BY <2>0
  <2>2. w[1] = Nested[r.pkg][r.opts[i].opt] /\ w[2] = r.opts[i].opts[k]
    BY <2>1
  <2> QED
    BY <1>1, <2>0, <2>2
<1> QED
  BY <1>2, <1>3 DEF OptionsFor, OptionsUnder

\* The messages asked for that are not a command's.
LEMMA LibraryIsNoCommand == \A r \in Library : r.cmd = "library"
BY DEF Library, Ask

\* A request of a command is built, or one of its user's values is refused: no command
\* gives a builder an option that does not apply to its message.
THEOREM CommandsAreBuilt == ReqSpec => []CommandsBuildRequests
<1> DEFINE Fit == request.cmd \in {"library", "load"}
                  \/ \E r \in Commands : request = r /\ FitInv(OptionsFor(r))
           Inv == \E pkg \in DOMAIN Options : ReqIInv(Branches(pkg))
<1>1. ReqInit => Inv /\ Fit
  <2> SUFFICES ASSUME ReqInit PROVE Inv /\ Fit
    OBVIOUS
  <2>1. /\ ReqIInv(Branches(request.pkg)) /\ request.pkg \in DOMAIN Options
        /\ request.opts \in Seq(Branches(request.pkg))
    BY RequestsAreOfOptions, BranchesAreClosed, ReqAnyInitInv DEF ReqInit, ReqAnyInit
  <2>2. ASSUME request \in Commands, request.cmd # "load"
        PROVE  FitInv(OptionsFor(request))
    <3> DEFINE f == Frame(request.msg, request.opts)
    <3>1. f.msg = request.msg /\ f.todo = request.opts /\ stack = <<f>> /\ outcome = "building"
      BY DEF ReqInit, Frame
    <3>2. DOMAIN request.opts = 1..Len(request.opts)
      BY <2>1
    <3> HIDE DEF f
    <3>3. FrameFits(OptionsFor(request), f)
      BY <3>1, <3>2 DEF FrameFits, OptionsFor
    <3>4. Len(stack) = 1 /\ stack[1] = f
      BY <3>1
    <3> QED
      BY <2>2, <3>1, <3>3, <3>4, OptionsForFit DEF FitInv, BuildsRequest
  <2> QED
    BY <2>1, <2>2, LibraryIsNoCommand DEF ReqInit
<1>2. Inv /\ Fit /\ [ReqNext]_reqVars => Inv' /\ Fit'
  <2> SUFFICES ASSUME NEW pkg \in DOMAIN Options, ReqIInv(Branches(pkg)), Fit, [ReqNext]_reqVars
               PROVE  ReqIInv(Branches(pkg))' /\ Fit'
    OBVIOUS
  <2>1. request' = request
    BY DEF ReqNext, ReqApply, ReqEnter, ReqLeave, ReqRefuseType, ReqRefuseValue, ReqIgnore,
           ReqDone, reqVars
  <2>2. ReqIInv(Branches(pkg))'
    BY ReqNextInv
  <2>3. ASSUME NEW r \in Commands, request = r, FitInv(OptionsFor(r))
        PROVE  FitInv(OptionsFor(r))'
    BY <2>3, FitNext
  <2> QED
    BY <2>1, <2>2, <2>3
<1>3. Fit => CommandsBuildRequests
  BY DEF FitInv, CommandsBuildRequests, BuildsRequest
<1> QED
  BY <1>1, <1>2, <1>3, PTL DEF ReqSpec
================================================================================
