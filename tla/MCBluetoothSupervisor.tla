----------------------- MODULE MCBluetoothSupervisor -----------------------
EXTENDS BluetoothSupervisor
=============================================================================
