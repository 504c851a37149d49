----------------------------- MODULE MCWorkflow -----------------------------
(***************************************************************************)
(* Instances of Workflow: designs of up to three requirements, most of them as    *)
(* in the scenarios that the tests of eak-phases and eak-cli run.               *)
(***************************************************************************)
EXTENDS Workflow

Of(class, category, targets) ==
  [class |-> class, sense |-> "Max", category |-> category, targets |-> targets]

AtLeast(candidate) == [candidate EXCEPT !.sense = "Min"]

Length(v) == [dimension |-> "Length", value |-> v]
Frequency(v) == [dimension |-> "Frequency", value |-> v]
Temperature(v) == [dimension |-> "Temperature", value |-> v]
Power(v) == [dimension |-> "Power", value |-> v]
ThermalResistance(v) == [dimension |-> "ThermalResistance", value |-> v]

UsbC == Of("Connector", "Functional", <<>>)
Enclosure(edge) == Of("Ic", "Mechanical", <<Length(edge)>>)
Load == Of("Ic", "Electrical", <<Power(5)>>)
Process(lengths) == Of("Ic", "Fabrication", [i \in DOMAIN lengths |-> Length(lengths[i])])

\* The golden design: a 50 mm board that everything fits and every rule passes.
Golden == <<UsbC, Enclosure(200), Load>>

\* No requirement at all; an end-of-life regulator without a source; two sources of
\* one rail; a ceiling of 5 W below a floor of 8 W; a junction at 145 degrees, and one
\* at 85 whose limit is 80.
Electrical ==
  {<<>>,
   <<Of("Regulator", "Electrical", <<>>), Load>>,
   <<UsbC, UsbC>>,
   <<Load, AtLeast(Of("Connector", "Functional", <<Power(8)>>))>>,
   <<UsbC, Of("Ic", "Thermal", <<ThermalResistance(60), Power(2), Temperature(25)>>)>>,
   <<UsbC, Of("Ic", "Thermal",
       <<Temperature(25), ThermalResistance(60), Power(1), Temperature(80)>>)>>}

\* A board without extent; one that ends in a courtyard, near the end of the tracks; one
\* that ends at 0.25 mm from it, within the keep-out; and one that the fabrication's own
\* keep-out makes too small.
Boards ==
  {<<UsbC, Enclosure(0)>>, <<UsbC, Enclosure(69)>>, <<UsbC, Enclosure(81)>>,
   <<UsbC, Enclosure(131), Process(<<2, 4>>)>>}

\* Traces finer than the process etches; copper nearer than it isolates; tracks of 10.6 mm
\* above and below a tenth of the wavelength, and no frequency above zero.
Copper ==
  {<<UsbC, Process(<<3>>)>>,
   <<UsbC, Process(<<2, 2, 1>>)>>,
   <<UsbC, Of("Ic", "Electrical", <<Frequency(3), Frequency(1)>>)>>,
   <<UsbC, Of("Ic", "Electrical", <<Frequency(2)>>)>>,
   <<UsbC, Of("Ic", "Electrical", <<Frequency(0)>>)>>}

MCCandidateLists == {Golden} \cup Electrical \cup Boards \cup Copper

MCSoundCandidates == {Golden, <<UsbC, Load>>}
=============================================================================
