SPECIFICATION FairQueueSpec
CONSTANTS
    p1 = p1  p2 = p2  p3 = p3
    Caller <- ThreeCallers
    Task <- Tasks
    task_priority_um <- Priority
    block_tasks_um <- BlockTasks
    low_ignore_high_um <- IgnoreTasks
    ENC_MAX_THREAD_NUM = 2
    ENC_RESERVED_THREAD_NUM = 1
    ENC_PERMANENT_TASK_NUM = 1
    ENC_PRIO_TIMEOUT_THRESHOLD = 1
    ENC_TASK_TIMEOUT = 2
INVARIANTS
    QueueTypeOK
    CountsAgree
PROPERTIES
    LowTasksLeave
    ImplementsSlots
