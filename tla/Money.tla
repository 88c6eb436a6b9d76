--------------------------------- MODULE Money ---------------------------------
(* What assets are worth: the arithmetic on their names that the server and  *)
(* the browser each have a copy of.  A name is known by what the arithmetic  *)
(* takes from it, the number it starts with and whether there is a c in it.  *)
(* Values are in hundredths, in which 0.01 times a number is exact, as it is *)
(* for BigNumber.                                                            *)
EXTENDS Integers, Sequences, Functions

Names == [number : Nat, c : BOOLEAN]

\* A slip: the letter is dropped and the hundredths are forgotten.
withoutCents(name) == 100 * name.number

\* The server's copy.
assetToNumber(name) == IF name.c THEN name.number ELSE 100 * name.number

multipleAssetToValue(name, value) == assetToNumber(name) * value

totalAssetsAmount(assets) ==
  SumFunction([i \in DOMAIN assets |->
    multipleAssetToValue(assets[i].assetName, assets[i].amountNumber)])

\* A slip: only an amount of nothing is refused.
notZero(assets) == \A i \in 1 .. Len(assets) : assets[i].amountNumber # 0

\* validateAmmount: amounts that are negative or zero are refused.
validateAmmount(assets) == \A i \in 1 .. Len(assets) : assets[i].amountNumber > 0

\* The browser's copy.
clientAssetToNumber(name) == IF name.c THEN name.number ELSE 100 * name.number

calculateTotal(assets) ==
  SumFunction([i \in DOMAIN assets |->
    clientAssetToNumber(assets[i].assetName) * assets[i].amountNumber])
===============================================================================
