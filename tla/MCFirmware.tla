------------------------------ MODULE MCFirmware ------------------------------
EXTENDS Firmware

\* main creates two tasks, vTaskStartScheduler the timer task.
MCCreated == <<"led", "dap", "timer">>

\* Two chips of two makers, a first chip alone, a second chip alone.
MCFittings ==
    {<<"AP 64Mb", "ISSI 128Mb">>, <<"ISSI 64Mb", "none">>, <<"ISSI other", "AP 64Mb">>}
===============================================================================
