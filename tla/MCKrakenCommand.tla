-------------------------- MODULE MCKrakenCommand --------------------------
(* A profile changed in up to two of its records, with every table beside   *)
(* it; profiles after one another under every FIELD file; documents of two  *)
(* coupled profiles for every grid and pair of interfaces; and small cases  *)
(* to run in every format and in quotas that end before each product.       *)
EXTENDS KrakenCommand

N(n) == Atom(Number(n))
T(characters) == Atom(Text(characters))
L1(a) == Line(<<a>>)
L2(a, b) == Line(<<a, b>>)
Ns(s) == Line([i \in DOMAIN s |-> N(s[i])])
Cut(s) == Line(Append([i \in DOMAIN s |-> N(s[i])], Slash))
Medium(bottom, points) == <<Ns(<<0, 0, bottom>>)>> \o points
Wet1(top, bottom) == Medium(bottom, <<Ns(<<top, 1500, 0, 1, 0, 0>>), Cut(<<bottom, 1520>>)>>)
Lossy(top, bottom) == Medium(bottom, <<Ns(<<top, 1500, 0, 1, 2, 0>>), Cut(<<bottom, 1520>>)>>)
Solid(top, bottom, speed) ==
  Medium(bottom, <<Ns(<<top, 2000, 800, 2, 1, 1>>), Cut(<<bottom, speed>>)>>)

(* The records of a profile, the first form of each the plain one.          *)
Forms == [
  heading |-> <<
    <<L1(T(<<"t">>)), Ns(<<50>>), Ns(<<1>>)>>,
    <<L1(T(<<"t">>)), Ns(<<50>>), Ns(<<2>>)>>,
    <<L1(T(<<"t">>)), Ns(<<50>>), Ns(<<3>>)>>,
    <<L1(T(<<"t">>)), Ns(<<NaN>>), Ns(<<1>>)>>,
    <<L1(T(<<"t">>)), L2(N(50), Comma), L2(Comma, N(1))>> >>,
  top |-> <<
    <<L1(T(<<"C", "V", "W">>))>>,
    <<L1(T(<<"N", "F", "W">>))>>,
    <<L1(T(<<"S", "R", "F", "F">>)), Ns(<<10, 35, 8, 100>>)>>,
    <<L1(T(<<"C", "A", "W">>)), Cut(<<0, 1600, 0, 2>>)>>,
    <<L1(T(<<"C", "A", "W">>)), Ns(<<0, 2000, 800, 2, 0, 0>>)>>,
    <<L1(T(<<"C", "A", "m">>))>>,
    <<L1(T(<<"A", "V", "N">>))>>,
    <<L1(T(<<"C", "V", "W", " ", " ", "B">>))>>,
    <<L1(T(<<"C", "V", "m">>))>>,
    <<L1(T(<<"P", "V", "Q", "B">>)), Ns(<<1>>), Ns(<<0, 60, 50, 1, 1>>)>>,
    <<L1(T(<<"C", "V", "W", " ", ".">>))>>,
    <<Line(<<OpenQuote>>)>> >>,
  media |-> <<
    Wet1(0, 100),
    Wet1(0, 50) \o Wet1(50, 100),
    Lossy(0, 50) \o Solid(50, 100, 2000),
    Solid(0, 10, 2000) \o Wet1(10, 100),
    Solid(0, 10, 2000) \o Wet1(10, 50) \o Solid(50, 100, 2100),
    <<Ns(<<0, 0, 5000>>)>>,
    <<Ns(<<0, 0, 100>>), Cut(<<0>>), Cut(<<0, 1500>>), Cut(<<100>>)>>,
    <<Line(<<N(0), N(0), N(100), N(1), N(2)>>), Cut(<<0>>), Line(<<N(100), Comment, N(1)>>), Cut(<<100>>)>>,
    <<Line(<<N(9), N(0), N(100)>>), Cut(<<0>>), Cut(<<100>>)>> >>,
  bottom |-> <<
    <<L2(T(<<"R">>), N(0))>>,
    <<L2(T(<<"A">>), N(0)), Cut(<<100, 1600, 0, 2, 1>>)>>,
    <<L2(T(<<"A">>), N(0)), Ns(<<100, 2000, 800, 2, 1, 1>>)>>,
    <<L2(T(<<"F">>), N(0))>>,
    <<L2(T(<<"P">>), N(0))>>,
    <<Line(<<T(<<"V">>), N(0), N(1), N(2)>>)>>,
    <<L2(T(<<"V">>), N(1))>> >>,
  limits |-> <<
    <<Ns(<<1520, 1600>>), Ns(<<0>>)>>,
    <<Ns(<<1600, 1520>>), Ns(<<1>>)>> >>,
  depths |-> <<
    <<Ns(<<1>>), Ns(<<50>>), Ns(<<3>>), Cut(<<0, 100>>)>>,
    <<Ns(<<2>>), Ns(<<60>>), Ns(<<40>>), Ns(<<1>>), Ns(<<60>>)>>,
    <<Ns(<<2>>), Cut(<<60>>), Ns(<<1>>), Ns(<<60>>)>>,
    <<Ns(<<1>>), Ns(<<50>>), Ns(<<2>>), Ns(<<40, 20>>)>> >>,
  band |-> <<
    <<>>,
    <<Ns(<<2>>), Ns(<<50, 60>>)>>,
    <<Ns(<<2>>), Ns(<<60, 0>>)>> >> ]

Records == <<"heading", "top", "media", "bottom", "limits", "depths", "band">>
Usual == [r \in DOMAIN Forms |-> 1]
Environments(choice) == FlattenSeq([i \in DOMAIN Records |-> Forms[Records[i]][choice[Records[i]]]])
Changed == UNION {UNION {{[Usual EXCEPT ![r] = a, ![q] = b] : a \in DOMAIN Forms[r], b \in DOMAIN Forms[q]}
                           : q \in DOMAIN Forms} : r \in DOMAIN Forms}
(* Several media and what they need of the heading.                         *)
Deep == {[Usual EXCEPT !.heading = IF m = 5 THEN 3 ELSE 2, !.media = m, !.top = t, !.bottom = b,
                       !.depths = 4] :
           m \in 2 .. 5, t \in {1, 3, 4, 5, 10}, b \in {1, 2, 3}}

FieldForms == [
  options |-> <<
    <<L1(T(<<"R">>))>>,
    <<L1(T(<<"X", " ", "*">>))>>,
    <<L1(T(<<"S", "A", " ", "I">>))>>,
    <<L1(T(<<"R", "C">>))>>,
    <<L1(T(<<"Z">>))>> >>,
  profiles |-> <<
    <<Ns(<<1>>), Ns(<<0>>)>>,
    <<Ns(<<2>>), Ns(<<0, 2>>)>>,
    <<Ns(<<3>>), Cut(<<0, 2>>)>> >>,
  positions |-> <<
    <<Ns(<<2>>), Ns(<<3, 1>>), Ns(<<1>>), Ns(<<50>>), Ns(<<1>>), Ns(<<50>>), Ns(<<1>>), Ns(<<0>>)>>,
    <<Ns(<<2>>), Ns(<<1, 1>>), Ns(<<1>>), Ns(<<50>>), Ns(<<1>>), Ns(<<50>>), Ns(<<1>>), Ns(<<0>>)>> >> ]
FieldRecords(o, p, z) ==
  <<L1(T(<<"t">>))>> \o FieldForms.options[o] \o <<Ns(<<3>>)>> \o FieldForms.profiles[p] \o FieldForms.positions[z]
UsualField == FieldRecords(1, 1, 1)
FieldChoices == {FieldRecords(o, p, z) : o \in DOMAIN FieldForms.options, p \in DOMAIN FieldForms.profiles,
                                         z \in DOMAIN FieldForms.positions}

(* The tables, and a form for a file that is not there.                     *)
TableForms ==
  "trc" :> << <<Ns(<<2>>), Ns(<<0, 1, 0>>), Ns(<<90, 1, 180>>)>>, <<Ns(<<1>>), Ns(<<0, 1, 0>>)>>, <<>> >>
  @@ "brc" :> << <<Ns(<<2>>), Ns(<<0, 1, 0>>), Ns(<<90, 1, 0>>)>>, <<Ns(<<2>>), Ns(<<0, 1>>)>>, <<>> >>
  @@ "irc" :> << <<L2(T(<<"t">>), N(50)), Ns(<<2>>), WideLine(<<N(0), N(1)>>), WideLine(<<N(1), N(2)>>)>>,
                 <<L2(T(<<"t">>), N(60)), Ns(<<2>>), WideLine(<<N(0), N(1)>>), WideLine(<<N(1), N(2)>>)>>,
                 <<L2(T(<<"t">>), N(50)), Ns(<<2>>), Ns(<<0, 1>>), Ns(<<1, 2>>)>>, <<>> >>
  @@ "sbp" :> << <<Ns(<<2>>), Ns(<<-90, 0>>), Ns(<<90, 0>>)>>,
                 <<Ns(<<2>>), Ns(<<-90, LoudLevel>>), Ns(<<90, 0>>)>>, <<>> >>
Right == [x \in DOMAIN TableForms |-> 1]
Beside == UNION {UNION {{[Right EXCEPT ![x] = a, ![y] = b] : a \in DOMAIN TableForms[x], b \in DOMAIN TableForms[y]}
                          : y \in DOMAIN Right} : x \in DOMAIN Right}
Files(environment, field, tables) ==
  "env" :> environment @@ "flp" :> field @@
  [x \in {x \in DOMAIN tables : TableForms[x][tables[x]] # <<>>} |-> TableForms[x][tables[x]]]

Asked(command, solver, files) ==
  [command |-> command, solver |-> solver, format |-> "legacy", maximum |-> 0, files |-> files]
OneProfile == {Asked("export", solver, Files(Environments(choice), UsualField, Right)) :
                 solver \in {"kraken", "krakenc"}, choice \in Changed \cup Deep}
WithTables == {Asked("export", "krakenc", Files(Environments([Usual EXCEPT !.top = 2, !.bottom = b, !.depths = 2]),
                                                FieldRecords(2, 1, 1), tables)) :
                 b \in {4, 5}, tables \in Beside}
(* A plain profile, one with a band, one that asks for a table of each end, *)
(* one of two media and one that has no samples at its ends; up to three of *)
(* them in a file.                                                         *)
Threes == {Environments(choice) : choice \in {Usual, [Usual EXCEPT !.top = 8, !.band = 2], [Usual EXCEPT !.top = 2]}}
Profiled == Threes \cup {Environments(choice) :
  choice \in {[Usual EXCEPT !.bottom = 4], [Usual EXCEPT !.heading = 2, !.media = 2], [Usual EXCEPT !.depths = 2]}}
Several == Profiled \cup {a \o b : a, b \in Profiled} \cup {a \o b \o c : a, b, c \in Threes}
SeveralProfiles ==
  {Asked("export", "krakenc", Files(environment, field, Right)) : environment \in Several, field \in FieldChoices}
Absent == {Asked("export", "kraken", "env" :> Environments(Usual)),
           Asked("run", "kraken", Files(Environments(Usual), UsualField, Right))}

-----------------------------------------------------------------------------
(* Documents.                                                              *)

Fluid(top, bottom) ==
  [bottom |-> bottom, mesh |-> 0, density |-> 1, points |-> <<<<top, 1500>>, <<bottom, 1520>>>>, losses |-> <<>>]
Fluids(interfaces, bottom) ==
  LET depths == <<0>> \o InOrder(interfaces) \o <<bottom>>
  IN  [i \in 1 .. Len(depths) - 1 |-> Fluid(depths[i], depths[i + 1])]
Base(interfaces, bottom, grid) ==
  [solver |-> "kraken", frequency |-> 50, reference |-> <<>>, interpolation |-> "N",
   surface |-> "vacuum", surfacePoint |-> NoMaterial, surfaceTable |-> NoTable,
   bottom |-> "rigid", bottomPoint |-> NoMaterial, bottomTable |-> NoTable,
   fluids |-> Fluids(interfaces, bottom), tops |-> <<>>, bottoms |-> <<>>,
   geometry |-> "point", addition |-> "coherent", pattern |-> <<>>, low |-> 1400, high |-> 1600, maxRange |-> 0,
   modeDepths |-> InOrder(grid), limit |-> 2,
   sources |-> <<1>>, receivers |-> <<1>>, ranges |-> <<3>>, offsets |-> <<0>>]
HalfSpace(d) == [d EXCEPT !.bottom = "fluid", !.bottomPoint = <<0, 1600, 0, 2, 0, 0>>]
Propagated(profiles, kind) ==
  [profiles |-> profiles, starts |-> [i \in DOMAIN profiles |-> 2 * (i - 1)], propagation |-> kind]
OfDocument(command, format, maximum, fs) ==
  [command |-> command, solver |-> "any", format |-> format, maximum |-> maximum, document |-> <<Document(fs)>>]

Grids(bottom) == {{0, bottom} \cup s : s \in {s \in SUBSET (1 .. bottom - 1) : Cardinality(s) \in 2 .. 5}}
Interfaces(bottom) == {s \in SUBSET (1 .. bottom - 1) : Cardinality(s) \in 1 .. 2}
Lefts == {Base({}, 7, {0, 7}), HalfSpace(Base({}, 9, {0, 8, 9})), Base({}, 3, {0, 3})}
Coupled2 ==
  {OfDocument("export", "hdf5", 0, <<Propagated(<<left, right>>, "coupled")>>) :
     left \in Lefts, right \in UNION {{Base(i, 7, g), HalfSpace(Base(i, 7, g))} : i \in Interfaces(7), g \in Grids(7)}}

(* What can be wrong with a document.                                       *)
Wrong ==
  LET d == Base({}, 8, {0, 4, 8})
      one(e) == OfDocument("export", "hdf5", 0, <<Propagated(<<e>>, "independent")>>)
  IN  {one(e) : e \in {d, [d EXCEPT !.frequency = 0], [d EXCEPT !.low = 1600], [d EXCEPT !.limit = 9],
                       [d EXCEPT !.modeDepths = <<0, 9>>], [d EXCEPT !.ranges = <<>>],
                       [d EXCEPT !.pattern = <<<<0, 1>>>>], [d EXCEPT !.offsets = <<-4>>]}}
      \cup {[one(d) EXCEPT !.document[1].version = 2], [one(d) EXCEPT !.document = <<>>],
            [one(d) EXCEPT !.solver = "krakenc"],
            OfDocument("export", "hdf5", 0, <<Propagated(<<d>>, "independent"),
                                              Propagated(<<[d EXCEPT !.solver = "krakenc"]>>, "independent")>>)}

(* Cases to run: one depth; two frequencies; a solid; and three profiles.   *)
Narrow == [Base({}, 8, {4}) EXCEPT !.sources = <<4>>, !.receivers = <<4>>]
SolidBelow ==
  [Narrow EXCEPT !.bottoms = <<[bottom |-> 12, mesh |-> 0, material |-> <<0, 2000, 800, 2, 0, 0>>, profile |-> <<>>]>>]
Wide == [Base({}, 8, {0, 8}) EXCEPT !.ranges = <<1, 3, 5>>]
Two == [Wide EXCEPT !.sources = <<1, 2>>, !.receivers = <<1, 2>>, !.offsets = <<0, 0>>, !.ranges = <<1, 4>>]
ToRun ==
  { <<Propagated(<<Narrow>>, "independent")>>,
    <<Propagated(<<SolidBelow>>, "independent"), Propagated(<<[SolidBelow EXCEPT !.frequency = 60]>>, "independent")>>,
    <<Propagated(<<Two>>, "independent")>>,
    <<Propagated(<<Wide, Wide, Wide>>, "adiabatic")>>,
    <<Propagated(<<Two, Two>>, "adiabatic")>>,
    <<Propagated(<<Wide, Wide, Wide>>, "coupled")>>,
    <<Propagated(<<Two, Two>>, "coupled")>> }
Runs == {OfDocument("run", format, maximum, fs) :
           format \in {"hdf5", "legacy", "both"}, fs \in ToRun,
           maximum \in {0, 25, 60, 100, 260, 290, 310, 340, 400, 620, 2000}}

MCRequests == {OneProfile, WithTables, SeveralProfiles, Absent, Coupled2, Wrong, Runs}
MCScale == [u \in {"N", "W", "M", "m", "F", "Q", "L"} |->
              CASE u = "W" -> 10 [] u = "L" -> 545 [] u = "N" -> 1302 [] u = "F" -> 15 [] u = "Q" -> 273 [] OTHER -> 150]
=============================================================================
