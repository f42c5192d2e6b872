------------------------ MODULE MCFirmwareController ------------------------
EXTENDS FirmwareController
CONSTANTS window, exhaust

Says(pm, co2) == [known |-> TRUE, pm |-> pm, temp |-> "warm", co2 |-> co2]
SomeAir == {Says("low", "high"), Says("low", "low"), Says("high", "high")}

OnOff == {Default, [enabled |-> TRUE, autoWindow |-> TRUE, filtered |-> TRUE]}

Shows(open, close, turning) == [open |-> open, close |-> close, turning |-> turning]
Limits     == {Shows(open, close, {}) : open, close \in BOOLEAN}
Turning    == {Shows(FALSE, TRUE, turning) : turning \in {{}, Fans}}

Asks(target, desired, manual) == [target |-> target, desired |-> desired, manual |-> manual]
OfWindow == {Asks(window, TRUE, TRUE), Asks(window, FALSE, FALSE)}
OfBoth   == {Asks(window, FALSE, TRUE), Asks(exhaust, TRUE, TRUE), Asks(exhaust, TRUE, FALSE)}
=============================================================================
