----------------------------- MODULE MCUniverse -----------------------------
(***************************************************************************)
(* TLC instances of Universe: one configuration that is right and others   *)
(* that each have one thing wrong.                                         *)
(***************************************************************************)
EXTENDS Universe

CONSTANTS p1, a, b, light, fan, fog

MCNames == {"sensors", "Sensors", "sensors-port", "pca", "pca-light", "pca-fan", "fog", "Fog",
            "i2c", "I2C"}
MCLower == [n \in MCNames |->
              CASE n = "Sensors" -> "sensors" [] n = "Fog" -> "fog" [] n = "I2C" -> "i2c"
                [] OTHER -> n]
MCPortAlias == [np \in MCNames \X {p1, light, fan, fog} |->
                  CASE np[2] = p1 -> "sensors-port" [] np[2] = light -> "pca-light"
                    [] np[2] = fan -> "pca-fan" [] OTHER -> "fog"]

Map(p, alias) == [port |-> p, alias |-> alias]
On(bus, interval) == [bus |-> bus, interval |-> interval]
Input(alias, ports) ==
  [alias |-> alias, kind |-> "input", inputs |-> ports, outputs |-> <<>>, group |-> NotSynchronized]
Output(alias, ports, group) ==
  [alias |-> alias, kind |-> "output", inputs |-> <<>>, outputs |-> ports, group |-> group]

Lights == Output("pca", <<Map(light, NoAlias), Map(fan, "Fog")>>, On("i2c", 20))
Room == Input("Sensors", <<Map(p1, NoAlias)>>)
Fogger(alias, group) == Output(alias, <<Map(fog, "pca-fan")>>, group)

MCConfigurations == {
  <<<<Lights, Room>>, <<Fogger("I2C", On("I2C", 20))>>>>,
  \* Devices with the same alias, or with one that only differs in its case.
  <<<<Room>>, <<Fogger("Sensors", NotSynchronized)>>>>,
  <<<<Room, Fogger("sensors", NotSynchronized)>>>>,
  \* A port with the alias of another port, and an input port of an output device.
  <<<<Room, Lights, Output("I2C", <<Map(fog, "sensors-port")>>, NotSynchronized)>>>>,
  <<<<Room, [Lights EXCEPT !.inputs = <<Map(fog, NoAlias)>>]>>>>,
  \* A port mapped twice.
  <<<<Room, Output("pca", <<Map(fan, NoAlias), Map(fan, "fog")>>, NotSynchronized)>>>>,
  \* Synchronized PCA9685s with different intervals, or without one.
  <<<<Lights, Room, Fogger("I2C", On("I2C", 40))>>>>,
  <<<<Room, Fogger("I2C", On("I2C", 0))>>>> }
=============================================================================
