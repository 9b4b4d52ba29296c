-------------------------- MODULE MCBellhopCommand --------------------------
(* A case that asks for nothing more, changed in up to two of its records,  *)
(* with every auxiliary file beside it; a case that asks for all of them,   *)
(* with up to two of them changed; and small cases to run.                  *)
EXTENDS BellhopCommand

N(n) == Atom(Number(n))
T(characters) == Atom(Text(characters))
L1(a) == Line(<<a>>)
L2(a, b) == Line(<<a, b>>)
L3(a, b, c) == Line(<<a, b, c>>)
Ns(s) == Line([i \in DOMAIN s |-> N(s[i])])
Two(a, b) == Line(<<N(a), N(b), Slash>>)

(* The records of an environment, the first form of each the plain one.     *)
Forms == [
  heading |-> <<
    <<L1(T(<<"t">>)), Ns(<<50>>), Ns(<<1>>)>>,
    <<L1(T(<<"t">>)), Ns(<<NaN>>), Ns(<<1>>)>>,
    <<L1(T(<<"t">>)), Ns(<<50>>), Ns(<<2>>)>> >>,
  top |-> <<
    <<L1(T(<<"C", "V", "W">>))>>,
    <<L1(T(<<"Q", "F", "W", " ", "*">>))>>,
    <<L1(T(<<"A", "R", "W", " ", " ", "I">>))>>,
    <<L1(T(<<"C", "W", "F", "B">>)), Ns(<<1>>), Ns(<<5, 1>>)>>,
    <<L1(T(<<"C", "A", "W">>)), Line(<<Slash>>)>>,
    <<L1(T(<<"C", "A", "W">>)), L3(N(0), N(0), Slash)>>,
    <<L1(T(<<"C", "P", "W">>))>>,
    <<L1(T(<<"C", "A", "W">>)), Ns(<<NaN, 1600, 21>>)>>,
    <<L1(T(<<"C", "A", "W">>)), Ns(<<0, 1600, 21>>)>>,
    <<Line(<<OpenQuote>>)>> >>,
  profile |-> <<
    <<Ns(<<0, 0, 100>>), Two(0, 1500), Two(100, 1520)>>,
    <<Ns(<<0, 0, 100>>)>>,
    <<Ns(<<0, 0, 100>>), Two(0, 1500), Two(0, 1500), Two(100, 1520)>>,
    <<Ns(<<0, NaN, 100>>), Two(0, 1500), L3(N(100), N(0), Slash)>>,
    <<Ns(<<0, 0, 0>>), Two(0, 1500)>> >>,
  bottom |-> <<
    <<L2(T(<<"R">>), N(0))>>,
    <<L2(T(<<"F", "~">>), N(1))>>,
    <<L2(T(<<"P", " ">>), N(0))>>,
    <<L2(T(<<"G", " ">>), N(0)), Ns(<<100, 2>>)>>,
    <<L2(T(<<"A">>), N(0)), Ns(<<100, 1600, 900>>)>>,
    <<L2(T(<<"V", "?">>), N(0))>> >>,
  positions |-> <<
    <<Ns(<<1>>), Ns(<<50>>), Ns(<<2>>), Two(20, 80), Ns(<<2>>), Two(1, 2)>>,
    <<Ns(<<1>>), Ns(<<50>>), Ns(<<3>>), Two(20, 80), Ns(<<2>>), Two(2, 1)>>,
    <<Ns(<<1>>), Ns(<<150>>), Ns(<<2>>), Two(20, 80), Ns(<<2>>), Two(1, 1)>>,
    <<Ns(<<1>>), Ns(<<50>>), Ns(<<2>>), Line(<<Comma, N(20), Comma, Slash>>)>>,
    <<Ns(<<1>>), Ns(<<50>>), Ns(<<2>>), Line(<<Repeat(2, Number(20)), Comment, N(1)>>), Ns(<<1>>), Ns(<<1>>)>> >>,
  run |-> <<
    <<L1(T(<<"R">>))>>,
    <<L1(T(<<"a", "G", "*", "X">>))>>,
    <<L1(T(<<"C", "?", " ", " ", "I">>))>>,
    <<L1(T(<<"I", "C">>))>>,
    <<L1(T(<<"E", "b", " ", "R", "R", "3">>))>>,
    <<L1(T(<<"Z">>))>>,
    <<L1(T(<<"C", "B", "*", "Y", "Y", "4">>))>> >>,
  angles |-> <<
    <<Ns(<<2>>), Two(-10, 10)>>,
    <<Ns(<<3>>), Ns(<<-180, 0, 180>>)>>,
    <<Ns(<<2, 2>>), Two(-10, 10)>>,
    <<Ns(<<0>>), Two(-10, 10)>>,
    <<Ns(<<2, 3>>), Line(<<N(10), Comma, Comma, Slash>>)>> >>,
  trace |-> <<
    <<Ns(<<0, 200, 10>>)>>,
    <<Ns(<<0, 200, 10>>), L3(T(<<"F", "S">>), N(1), N(1)), L3(N(1), N(1), T(<<"P">>))>>,
    <<Ns(<<-1, 0, 10>>)>>,
    <<L2(N(0), N(200))>> >> ]

Records == <<"heading", "top", "profile", "bottom", "positions", "run", "angles", "trace">>
Plain == [r \in DOMAIN Forms |-> 1]
File(choice) == FlattenSeq([i \in DOMAIN Records |-> Forms[Records[i]][choice[Records[i]]]])
Changed == UNION {UNION {{[Plain EXCEPT ![r] = a, ![q] = b] : a \in DOMAIN Forms[r], b \in DOMAIN Forms[q]}
                           : q \in DOMAIN Forms} : r \in DOMAIN Forms}

(* The auxiliary files, the first form of each right for the rich case, and *)
(* a form for a file that is not there.                                    *)
AuxiliaryForms ==
  "ssp" :> << <<Ns(<<2>>), Ns(<<0, 1>>), Ns(<<1500, 1510>>), Ns(<<1520, 1530>>)>>,
              <<Ns(<<2>>), Ns(<<1, 0>>), Ns(<<1500, 1510>>), Ns(<<1520, 1530>>)>>,
              <<Ns(<<3>>), Ns(<<0, 1>>), Ns(<<1500, 1510>>)>>, <<>> >>
  @@ "ati" :> << <<L1(T(<<"L">>)), Ns(<<2>>), Ns(<<0, 0>>), Ns(<<9, 5>>)>>,
                 <<L1(T(<<"L">>)), Ns(<<1>>), Ns(<<0, -5>>)>>, <<>> >>
  @@ "bty" :> << <<L1(T(<<"C", "L">>)), Ns(<<1>>), Ns(<<0, 100, 1600>>)>>,
                 <<L1(T(<<"L", "L">>)), Ns(<<2>>), Ns(<<0, 90, 1600>>), Ns(<<0, 90, 1600>>)>>, <<>> >>
  @@ "brc" :> << <<Ns(<<2>>), Ns(<<0, 1, 0, 90, 1, 0>>)>>, <<Ns(<<2>>), Ns(<<0, 1, 0, 90, -1, 0>>)>>, <<>> >>
  @@ "trc" :> << <<Ns(<<2>>), Ns(<<0, 1, 0>>), Ns(<<90, 1, 180>>)>>, <<Ns(<<1>>), Ns(<<0, 1, 0>>)>>, <<>> >>
  @@ "irc" :> << <<L2(T(<<"t">>), N(50)), Ns(<<2>>), WideLine(<<N(0), N(1)>>), Ns(<<1, 2>>)>>,
                 <<L2(T(<<"t">>), N(60)), Ns(<<2>>), Ns(<<0, 1>>), Ns(<<1, 2>>)>>,
                 <<L2(T(<<"t">>), N(50)), Ns(<<2>>), WideLine(<<Blank, N(1)>>)>>, <<>> >>
  @@ "sbp" :> << <<Ns(<<2>>), Ns(<<-90, 0>>), Ns(<<90, 0>>)>>,
                 <<Ns(<<2>>), Ns(<<-90, LoudLevel>>), Ns(<<90, 0>>)>>, <<>> >>

Right == [x \in DOMAIN AuxiliaryForms |-> 1]
Files(choice, auxiliary) ==
  "env" :> File(choice) @@
  [x \in {x \in DOMAIN auxiliary : AuxiliaryForms[x][auxiliary[x]] # <<>>} |-> AuxiliaryForms[x][auxiliary[x]]]

Rich(b, run) == [Plain EXCEPT !.top = 2, !.bottom = b, !.run = run]
Beside == UNION {UNION {{[Right EXCEPT ![x] = a, ![y] = b] : a \in DOMAIN AuxiliaryForms[x], b \in DOMAIN AuxiliaryForms[y]}
                          : y \in DOMAIN Right} : x \in DOMAIN Right}

FileInputs ==
  {[files |-> Files(choice, Right)] : choice \in Changed} \cup
  {[files |-> Files(Rich(b, run), auxiliary)] : b \in {2, 3}, run \in {2, 7}, auxiliary \in Beside} \cup
  {[files |-> "ssp" :> <<>>]}

(* Documents: those of cases that have one, and what can be wrong with one. *)
Examples(choices) ==
  LET part(x, e) == IF x \in Range(Auxiliaries(e))
                      THEN <<Understanding(ParseAuxiliary(x, AuxiliaryForms[x][1], e))>> ELSE <<>>
      definitions == {Definition(e, [x \in DOMAIN Nothing |-> part(x, e)]) :
                        e \in {Understanding(ParseEnvironment(File(choice))) : choice \in choices}}
  IN  {Export(d) : d \in definitions}

Documents ==
  UNION {{[doc EXCEPT !.version = v, !.frequency = f, !.depths = z, !.points[1].density = rho,
                      !.run.irregular = paired, !.selected = selected] :
            v \in {1, 2}, f \in {50, 0}, z \in {<<20, 80>>, <<50>>, <<>>, <<-1, 80>>}, rho \in {Spacing, 0, NaN},
            paired \in BOOLEAN, selected \in {<<>>, <<2>>, <<3>>}}
         : doc \in Examples({Plain, Rich(2, 2), Rich(3, 7)})}

DocumentInputs == {[document |-> <<doc>>] : doc \in Documents} \cup
                  {[document |-> <<>>], [document |-> <<Malformed>>]}

Ask2(commands, inputs) == [command : commands, input : inputs]

(* Small cases to run: options, sources, receivers, angles.                 *)
Small(d, options, sources, positions, angles) ==
  [document |-> <<[d EXCEPT !.run = [@ EXCEPT !.kind = options[1], !.family = options[2],
                              !.irregular = options[3], !.line = options[4]],
                            !.sources = sources, !.depths = positions[1], !.ranges = positions[2],
                            !.angles = angles,
                            !.cerveny = IF options[2] \in Cerveny THEN <<1, 1>> ELSE <<>>]>>]

Hat(kind) == <<kind, "hatCartesian", FALSE, FALSE>>
Square == << <<20, 80>>, <<1, 2>> >>
Shapes ==
  {<< <<"R", "none", FALSE, FALSE>>, <<40, 60>>, Square, <<-10, 10>> >>,
   << <<"R", "none", FALSE, FALSE>>, <<40, 60>>, Square, <<-10, 0, 10>> >>,
   << Hat("E"), <<50>>, Square, <<-10, 10>> >>,
   << <<"E", "simple", TRUE, FALSE>>, <<40, 60>>, Square, <<0>> >>,
   << Hat("A"), <<50>>, Square, <<0>> >>,
   << Hat("A"), <<40, 60>>, << <<20>>, <<1, 2>> >>, <<0>> >>,
   << Hat("A"), <<50>>, << <<20>>, <<-1, 1>> >>, <<-10, 10>> >>,
   << <<"A", "gaussianCartesian", TRUE, TRUE>>, <<50>>, Square, <<-10, 10>> >>,
   << <<"A", "simple", FALSE, FALSE>>, <<50>>, Square, <<0>> >>,
   << Hat("C"), <<50>>, Square, <<0>> >>,
   << <<"S", "gaussianCentered", FALSE, FALSE>>, <<50>>, Square, <<0>> >>,
   << <<"I", "cervenyCartesian", TRUE, FALSE>>, <<40, 60>>, << <<20, 80>>, <<0, 2>> >>, <<0>> >>,
   << Hat("C"), <<40, 50, 60>>, Square, <<0>> >>}
SmallInputs == {Small(d, s[1], s[2], s[3], s[4]) : d \in Examples({Plain}), s \in Shapes}

MCRequests ==
  Ask2({"validate", "export"}, FileInputs \cup DocumentInputs) \cup Ask2({"run"}, SmallInputs)

MCLimits == [rays |-> 5, steps |-> 2, points |-> 4, receiver |-> 2, arrivals |-> 3,
             eigenrays |-> 2, eigenrayPoints |-> 3, cells |-> 8]
=============================================================================
