--------------------------- MODULE ProtocolParams ---------------------------
(***************************************************************************)
(* The gas schedule the virtual machine reads: params/protocol_params.go,  *)
(* and the step costs of vm/gas.go.                                        *)
(***************************************************************************)
EXTENDS Integers

ExpByteGas == 10
CallValueTransferGas == 9000
CallNewAccountGas == 25000
QuadCoeffDiv == 512
LogDataGas == 8
CallStipend == 2300
Keccak256Gas == 30
Keccak256WordGas == 6
InitCodeWordGas == 2
ColdAccountAccessCostEIP2929 == 2600
ColdSloadCostEIP2929 == 2100
WarmStorageReadCostEIP2929 == 100
JumpdestGas == 1
CreateDataGas == 200
CallCreateDepth == 1024
ExpGas == 10
LogGas == 375
CopyGas == 3
LogTopicGas == 375
CreateGas == 32000
Create2Gas == 32000
MemoryGas == 3
CallGasFrontier == 40
CallGasEIP150 == 700
BalanceGasFrontier == 20
BalanceGasEIP150 == 400
BalanceGasEIP1884 == 700
ExtcodeSizeGasFrontier == 20
ExtcodeSizeGasEIP150 == 700
SloadGasFrontier == 50
SloadGasEIP150 == 200
SloadGasEIP1884 == 800
SloadGasEIP2200 == 800
ExtcodeHashGasConstantinople == 400
ExtcodeHashGasEIP1884 == 700
SelfdestructGasEIP150 == 5000
ExpByteFrontier == 10
ExpByteEIP158 == 50
ExtcodeCopyBaseFrontier == 20
ExtcodeCopyBaseEIP150 == 700
CreateBySelfdestructGas == 25000
MaxCodeSize == 24576
MaxCodeSizePIP30 == 32768
MaxInitCodeSize == 2 * MaxCodeSize
GasQuickStep == 2
GasFastestStep == 3
GasFastStep == 5
GasMidStep == 8
GasSlowStep == 10
GasExtStep == 20

=============================================================================
